---- MODULE Spec2Model ----
(***************************************************************************)
(* Loreweaver backend: the SQLite entity store (src-tauri/migration), the  *)
(* trigger-maintained FTS5 search index and the command handlers           *)
(* (src-tauri/src/commands) that read and write them.                      *)
(*                                                                         *)
(* A table is a function from primary key to row.  A nullable column holds *)
(* None or Some(v).  Text is a sequence of one-character strings, so that  *)
(* the SQL concatenations of the triggers are computed, not assumed.       *)
(* created_at / updated_at hold wall-clock readings; no property below     *)
(* reads them and they are left out of the rows.                           *)
(*                                                                         *)
(* A handler call is one step, except in SpecAtomic, which takes the steps *)
(* inside one SQL statement (row write, trigger body, commit) one by one:  *)
(* stmt is the statement in flight with its uncommitted pages, the table   *)
(* variables are what is committed.  SpecRace and SpecOverlap split the    *)
(* handlers that read and then write into their two database round trips:  *)
(* calls holds, for each task, the call in flight and what it has read.    *)
(* nupd, referrers, supplied and added are history variables.              *)
(***************************************************************************)
EXTENDS Integers, Sequences, FiniteSets, Bags, TLC

VARIABLES campaigns, players, locations, characters, organizations, quests,
          heroes, sessions, timeline_events, secrets, relationships, tags,
          entity_tags, search_index, ai_conversations, ai_messages,
          nextId, nupd, referrers, supplied, added, stmt, calls, result

vars == <<campaigns, players, locations, characters, organizations, quests,
          heroes, sessions, timeline_events, secrets, relationships, tags,
          entity_tags, search_index, ai_conversations, ai_messages,
          nextId, nupd, referrers, supplied, added, stmt, calls, result>>

\* -------------------- bounds

\* Number of primary keys (uuids) ever handed out in one run.
MaxIds == 4

\* Number of optional arguments one update call supplies.
MaxSupplied == 1

\* Number of successful update calls in one run of SpecUpdate.
MaxUpdates == 2

\* Rows created in a behaviour of SpecIndex.
MaxIndexIds == 3

\* Messages stored at a time.
MaxMessages == 3

\* Characters of a search query.
MaxQueryLen == 2

\* Rows created in a behaviour of SpecUpdate.
MaxUpdateIds == 3

\* Rows created in a behaviour of SpecDelete.
MaxDeleteIds == 3

\* Campaigns of a behaviour of SpecCascade; they are its first rows.
MaxCampaigns == 2

\* Handler calls that can be in flight at the same time.
MaxTasks == 2

\* -------------------- values

None == <<>>

Some(x) == <<x>>

\* The tasks that run handler calls side by side, and no call in flight.
Tasks == 1..MaxTasks

NoCalls == [t \in Tasks |-> None]

Ids == 1..MaxIds

OptIds == {None} \cup {Some(i) : i \in Ids}

OptKeys(table) == {None} \cup {Some(i) : i \in DOMAIN table}

A == <<"a">>

B == <<"b">>

Texts == {A, B}

OptTexts == {None} \cup {Some(t) : t \in Texts}

Space == <<" ">>

\* SQL COALESCE(x, '') on a nullable text column.
Coalesce(x) == IF x = None THEN <<>> ELSE x[1]

\* Result<T, AppError> of a command, with the command and its key argument.
Ok(op, arg, value) == [op |-> op, arg |-> arg, status |-> "Ok", value |-> value]

Err(op, arg, kind) == [op |-> op, arg |-> arg, status |-> kind, value |-> None]

\* -------------------- tables

EmptyTable == [i \in {} |-> None]

Insert(table, id, row) ==
    [i \in DOMAIN table \cup {id} |-> IF i = id THEN row ELSE table[i]]

DeleteKeys(table, ids) == [i \in DOMAIN table \ ids |-> table[i]]

\* Rows of a table that reference campaign c (fk_*_campaign).
OfCampaign(table, c) == {i \in DOMAIN table : table[i].campaign_id = c}

\* PATCH semantics of every update handler: `if let Some(v) = arg { active.f = Set(..) }`.
\* A nullable column stores Some(v), a NOT NULL column stores v.
PatchNullOut(row, args, nullable) ==
    [f \in DOMAIN row |->
        IF f \in DOMAIN args
        THEN IF f \in nullable THEN args[f]
             ELSE IF args[f] # None THEN args[f][1] ELSE row[f]
        ELSE row[f]]

Patch(row, args, nullable) ==
    [f \in DOMAIN row |->
        IF f \in DOMAIN args /\ args[f] # None
        THEN IF f \in nullable THEN args[f] ELSE args[f][1]
        ELSE row[f]]

\* -------------------- search index (FTS5 table + triggers)

Entry(type, id, campaign_id, name, content) ==
    [entity_type |-> type, entity_id |-> id, campaign_id |-> campaign_id,
     name |-> name, content |-> content]

\* INSERT INTO search_index(...) VALUES (...): the FTS5 table has no key, a second
\* insert of the same values is a second row.
IndexInsert(si, e) == si (+) SetToBag({e})

\* DELETE FROM search_index WHERE entity_type = type AND entity_id = id
IndexDeleteNothing(si, type, id) == si

IndexDelete(si, type, id) ==
    [e \in {x \in DOMAIN si : ~(x.entity_type = type /\ x.entity_id = id)} |-> si[e]]

\* Number of index rows for (type, id).
IndexCount(si, type, id) ==
    LET hit == {x \in DOMAIN si : x.entity_type = type /\ x.entity_id = id}
        RECURSIVE Sum(_)
        Sum(S) == IF S = {} THEN 0
                  ELSE LET x == CHOOSE y \in S : TRUE IN si[x] + Sum(S \ {x})
    IN Sum(hit)

CharacterContent(r) ==
    Coalesce(r.description) \o Space \o Coalesce(r.personality) \o Space
        \o Coalesce(r.motivations)

characters_ai(si, id, new) ==
    IndexInsert(si, Entry("character", id, new.campaign_id, new.name, CharacterContent(new)))

characters_au(si, id, old, new) ==
    IndexInsert(IndexDelete(si, "character", id),
                Entry("character", id, new.campaign_id, new.name, CharacterContent(new)))

characters_ad(si, id) == IndexDelete(si, "character", id)

LocationContent(r) == Coalesce(r.description)

locations_ai(si, id, new) ==
    IndexInsert(si, Entry("location", id, new.campaign_id, new.name, LocationContent(new)))

locations_au(si, id, old, new) ==
    IndexInsert(IndexDelete(si, "location", id),
                Entry("location", id, new.campaign_id, new.name, LocationContent(new)))

locations_ad(si, id) == IndexDelete(si, "location", id)

OrganizationContent(r) == Coalesce(r.description) \o Space \o Coalesce(r.goals)

organizations_ai(si, id, new) ==
    IndexInsert(si, Entry("organization", id, new.campaign_id, new.name, OrganizationContent(new)))

organizations_au(si, id, old, new) ==
    IndexInsert(IndexDelete(si, "organization", id),
                Entry("organization", id, new.campaign_id, new.name, OrganizationContent(new)))

organizations_ad(si, id) == IndexDelete(si, "organization", id)

QuestContent(r) ==
    Coalesce(r.description) \o Space \o Coalesce(r.hook) \o Space \o Coalesce(r.objectives)

quests_ai(si, id, new) ==
    IndexInsert(si, Entry("quest", id, new.campaign_id, new.name, QuestContent(new)))

quests_au(si, id, old, new) ==
    IndexInsert(IndexDelete(si, "quest", id),
                Entry("quest", id, new.campaign_id, new.name, QuestContent(new)))

quests_ad(si, id) == IndexDelete(si, "quest", id)

HeroContent(r) == Coalesce(r.description) \o Space \o Coalesce(r.backstory)

heroes_ai(si, id, new) ==
    IndexInsert(si, Entry("hero", id, new.campaign_id, new.name, HeroContent(new)))

heroes_au(si, id, old, new) ==
    IndexInsert(IndexDelete(si, "hero", id),
                Entry("hero", id, new.campaign_id, new.name, HeroContent(new)))

heroes_ad(si, id) == IndexDelete(si, "hero", id)

\* SQLite's text form of an INTEGER, as `'Session ' || NEW.session_number` produces it.
Digit(d) == <<"0", "1", "2", "3", "4", "5", "6", "7", "8", "9">>[d + 1]

RECURSIVE NatText(_)
NatText(n) == IF n < 10 THEN <<Digit(n)>> ELSE NatText(n \div 10) \o <<Digit(n % 10)>>

IntText(n) == IF n < 0 THEN <<"-">> \o NatText(0 - n) ELSE NatText(n)

SessionPrefix == <<"S", "e", "s", "s", "i", "o", "n", " ">>

\* COALESCE(NEW.title, 'Session ' || NEW.session_number)
SessionNameTitleOnly(r) == Coalesce(r.title)

SessionName(r) ==
    IF r.title = None THEN SessionPrefix \o IntText(r.session_number) ELSE r.title[1]

SessionContent(r) == Coalesce(r.notes) \o Space \o Coalesce(r.summary)

sessions_ai(si, id, new) ==
    IndexInsert(si, Entry("session", id, new.campaign_id, SessionName(new), SessionContent(new)))

sessions_au(si, id, old, new) ==
    IndexInsert(IndexDelete(si, "session", id),
                Entry("session", id, new.campaign_id, SessionName(new), SessionContent(new)))

sessions_ad(si, id) == IndexDelete(si, "session", id)

\* The AFTER DELETE triggers of every row of `ids` in one statement or cascade.
RECURSIVE IndexDeleteAll(_, _, _)
IndexDeleteAll(si, type, ids) ==
    IF ids = {} THEN si
    ELSE LET i == CHOOSE j \in ids : TRUE
         IN IndexDeleteAll(IndexDelete(si, type, i), type, ids \ {i})

\* -------------------- foreign-key actions

\* ON DELETE SET NULL of fk_locations_parent, applied to the rows that remain.
OrphanChildren(locs, gone) ==
    [i \in DOMAIN locs |->
        IF locs[i].parent_id # None /\ locs[i].parent_id[1] \in gone
        THEN [locs[i] EXCEPT !.parent_id = None] ELSE locs[i]]

\* ON DELETE SET NULL of fk_heroes_player, applied to the rows that remain.
UnassignHeroes(hs, gone) ==
    [i \in DOMAIN hs |->
        IF hs[i].player_id # None /\ hs[i].player_id[1] \in gone
        THEN [hs[i] EXCEPT !.player_id = None] ELSE hs[i]]

\* Rows a SET NULL action rewrote: their AFTER UPDATE trigger runs.
Rewritten(before, after) == {i \in DOMAIN after : after[i] # before[i]}

RECURSIVE locations_au_each(_, _, _)
locations_au_each(si, locs, ids) ==
    IF ids = {} THEN si
    ELSE LET i == CHOOSE j \in ids : TRUE
         IN locations_au_each(locations_au(si, i, locs[i], locs[i]), locs, ids \ {i})

RECURSIVE heroes_au_each(_, _, _)
heroes_au_each(si, hs, ids) ==
    IF ids = {} THEN si
    ELSE LET i == CHOOSE j \in ids : TRUE
         IN heroes_au_each(heroes_au(si, i, hs[i], hs[i]), hs, ids \ {i})

\* DELETE FROM locations WHERE id IN gone, with fk_locations_parent.
LocationsCascade(locs, gone) == DeleteKeys(locs, gone \cup {i \in DOMAIN locs :
    locs[i].parent_id # None /\ locs[i].parent_id[1] \in gone})

LocationsAfterDelete(locs, gone) == OrphanChildren(DeleteKeys(locs, gone), gone)

\* DELETE FROM players WHERE id IN gone seen from heroes, with fk_heroes_player.
HeroesCascade(hs, gonePlayers) == DeleteKeys(hs, {i \in DOMAIN hs :
    hs[i].player_id # None /\ hs[i].player_id[1] \in gonePlayers})

HeroesAfterPlayerDelete(hs, gonePlayers) == UnassignHeroes(hs, gonePlayers)

\* fk_entity_tags_tag ON DELETE CASCADE.
EntityTagsKeepAll(ets, goneTags) == ets

EntityTagsAfterTagDelete(ets, goneTags) == {et \in ets : et.tag_id \notin goneTags}

\* fk_ai_messages_conversation ON DELETE CASCADE.
MessagesAfterConversationDelete(ms, goneConvs) ==
    SelectSeq(ms, LAMBDA m : m.conversation_id \notin goneConvs)

\* fk_<table>_campaign ON DELETE CASCADE: the rows of one child table that go.
CascadeNone(table, c) == {}

CampaignCascade(table, c) == OfCampaign(table, c)

\* `Ok(result.rows_affected > 0)` of a delete_by_id on a primary key.
RemovedAlways(table, id) == TRUE

Removed(table, id) == id \in DOMAIN table

\* -------------------- integers

\* i32::MAX and i32::MIN, the range of the token counters and of message_order.
I32Max == 2147483647

I32Min == (-I32Max) - 1

\* An integer of any size, as <<q, r>> for q * Limb + r with 0 <= r < Limb.
Limb == 2 ^ 30

Big(n) == <<n \div Limb, n % Limb>>

BigAdd(x, y) == <<x[1] + y[1] + ((x[2] + y[2]) \div Limb), (x[2] + y[2]) % Limb>>

\* The four sums of a conversation nothing has been added to.
NoTokens == <<Big(0), Big(0), Big(0), Big(0)>>

\* `a + b` on i32 leaves the range.
Overflows(a, b) ==
    \/ b > 0 /\ a > I32Max - b
    \/ b < 0 /\ a < I32Min - b

\* `a + b` on i32 in a build without overflow checks: the sum modulo 2^32.
WrappingAdd(a, b) ==
    IF b > 0 /\ a > I32Max - b THEN ((a - I32Max) + (b - I32Max)) - 2
    ELSE IF b < 0 /\ a < I32Min - b THEN (a + I32Max + 1) + (b + I32Max + 1)
    ELSE a + b

\* -------------------- initial state

\* A fresh database after Migrator::up: every table and the index are empty.
Init ==
    /\ campaigns = EmptyTable
    /\ players = EmptyTable
    /\ locations = EmptyTable
    /\ characters = EmptyTable
    /\ organizations = EmptyTable
    /\ quests = EmptyTable
    /\ heroes = EmptyTable
    /\ sessions = EmptyTable
    /\ timeline_events = EmptyTable
    /\ secrets = EmptyTable
    /\ relationships = EmptyTable
    /\ tags = EmptyTable
    /\ entity_tags = {}
    /\ search_index = EmptyBag
    /\ ai_conversations = EmptyTable
    /\ ai_messages = <<>>
    /\ nextId = 1
    /\ nupd = 0
    /\ referrers = 0
    /\ supplied = None
    /\ added = [i \in Ids |-> NoTokens]
    /\ stmt = None
    /\ calls = NoCalls
    /\ result = Ok("init", None, None)

\* uuid::Uuid::new_v4(): a key no row has had.
CanAllocate == nextId <= MaxIds

\* Update arguments over `fields`: all absent, or up to k of them supplied.
AllAbsent(fields) == [f \in fields |-> None]

RECURSIVE Supplied(_, _, _)
Supplied(fields, vals, k) ==
    IF k = 0 THEN {AllAbsent(fields)}
    ELSE LET less == Supplied(fields, vals, k - 1)
         IN less \cup UNION {{[a EXCEPT ![f] = Some(v)] : a \in less, v \in vals[f]} :
                                f \in fields}

\* -------------------- campaigns (commands/campaign.rs)

create_campaign_impl(name, description, system) ==
    /\ CanAllocate
    /\ LET id == nextId
           model == [name |-> name, description |-> description, system |-> system,
                     settings_json |-> None]
       IN /\ campaigns' = Insert(campaigns, id, model)
          /\ nextId' = nextId + 1
          /\ result' = Ok("create_campaign", id, model)
    /\ UNCHANGED <<players, locations, characters, organizations, quests, heroes,
                   sessions, timeline_events, secrets, relationships, tags, entity_tags,
                   search_index, ai_conversations, ai_messages>>

get_campaign_impl(id) ==
    IF id \in DOMAIN campaigns THEN Ok("get_campaign", id, campaigns[id])
    ELSE Err("get_campaign", id, "NotFound")

CampaignNullable == {"description", "system", "settings_json"}

update_campaign_impl(id, args) ==
    /\ IF id \in DOMAIN campaigns
       THEN LET active == Patch(campaigns[id], args, CampaignNullable)
            IN /\ campaigns' = [campaigns EXCEPT ![id] = active]
               /\ result' = Ok("update_campaign", id, active)
       ELSE /\ result' = Err("update_campaign", id, "NotFound")
            /\ UNCHANGED campaigns
    /\ UNCHANGED <<players, locations, characters, organizations, quests, heroes,
                   sessions, timeline_events, secrets, relationships, tags, entity_tags,
                   search_index, ai_conversations, ai_messages, nextId>>

\* DELETE FROM campaigns WHERE id = ?, with every ON DELETE action and trigger it sets off.
delete_campaign_impl(id) ==
    LET goneLoc == CampaignCascade(locations, id)
        goneCha == CampaignCascade(characters, id)
        goneOrg == CampaignCascade(organizations, id)
        goneQue == CampaignCascade(quests, id)
        goneHer == CampaignCascade(heroes, id)
        goneSes == CampaignCascade(sessions, id)
        gonePla == CampaignCascade(players, id)
        goneTag == CampaignCascade(tags, id)
        goneCon == CampaignCascade(ai_conversations, id)
        locs1 == LocationsAfterDelete(locations, goneLoc)
        hers1 == HeroesAfterPlayerDelete(DeleteKeys(heroes, goneHer), gonePla)
        si1 == IndexDeleteAll(search_index, "location", goneLoc)
        si2 == IndexDeleteAll(si1, "character", goneCha)
        si3 == IndexDeleteAll(si2, "organization", goneOrg)
        si4 == IndexDeleteAll(si3, "quest", goneQue)
        si5 == IndexDeleteAll(si4, "hero", goneHer)
        si6 == IndexDeleteAll(si5, "session", goneSes)
        si7 == locations_au_each(si6, locs1, Rewritten(locations, locs1))
        si8 == heroes_au_each(si7, hers1, Rewritten(heroes, hers1))
    IN /\ campaigns' = DeleteKeys(campaigns, {id})
       /\ players' = DeleteKeys(players, gonePla)
       /\ locations' = locs1
       /\ characters' = DeleteKeys(characters, goneCha)
       /\ organizations' = DeleteKeys(organizations, goneOrg)
       /\ quests' = DeleteKeys(quests, goneQue)
       /\ heroes' = hers1
       /\ sessions' = DeleteKeys(sessions, goneSes)
       /\ timeline_events' = DeleteKeys(timeline_events, CampaignCascade(timeline_events, id))
       /\ secrets' = DeleteKeys(secrets, CampaignCascade(secrets, id))
       /\ relationships' = DeleteKeys(relationships, CampaignCascade(relationships, id))
       /\ tags' = DeleteKeys(tags, goneTag)
       /\ entity_tags' = EntityTagsAfterTagDelete(entity_tags, goneTag)
       /\ ai_conversations' = DeleteKeys(ai_conversations, goneCon)
       /\ ai_messages' = MessagesAfterConversationDelete(ai_messages, goneCon)
       /\ search_index' = si8
       /\ result' = Ok("delete_campaign", id, Removed(campaigns, id))
       /\ UNCHANGED nextId

\* -------------------- shared by the handlers

\* validator: #[validate(length(min = 1, max = 200))] on a name.
MaxNameLen == 200

\* validator: #[validate(length(max = 50000))] on a long text.
MaxTextLen == 50000

\* Only the upper bound is checked.
ValidNameNoMin(name) == Len(name) <= MaxNameLen

ValidName(name) == Len(name) >= 1 /\ Len(name) <= MaxNameLen

ValidText(t) == t = None \/ Len(t[1]) <= MaxTextLen

LOCATION_TYPES == {"world", "continent", "region", "territory", "settlement", "district",
                   "building", "room", "landmark", "wilderness"}

ORG_TYPES == {"government", "guild", "religion", "military", "criminal", "mercantile",
              "academic", "secret_society", "family", "other"}

validate_location_type(value) == value \in LOCATION_TYPES

validate_org_type(value) == value \in ORG_TYPES

\* -------------------- characters (commands/character.rs)

create_character_impl(campaign_id, name, lineage, occupation, description) ==
    /\ CanAllocate
    /\ LET id == nextId
           model == [campaign_id |-> campaign_id, name |-> name, lineage |-> lineage,
                     occupation |-> occupation, is_alive |-> TRUE,
                     description |-> description, personality |-> None,
                     motivations |-> None, secrets |-> None, voice_notes |-> None,
                     stat_block_json |-> None]
       IN IF campaign_id \in DOMAIN campaigns
          THEN /\ characters' = Insert(characters, id, model)
               /\ search_index' = characters_ai(search_index, id, model)
               /\ nextId' = nextId + 1
               /\ result' = Ok("create_character", id, model)
          ELSE /\ result' = Err("create_character", None, "Database")
               /\ UNCHANGED <<characters, search_index, nextId>>
    /\ UNCHANGED <<campaigns, players, locations, organizations, quests, heroes,
                   sessions, timeline_events, secrets, relationships, tags, entity_tags,
                   ai_conversations, ai_messages>>

get_character_impl(id) ==
    IF id \in DOMAIN characters THEN Ok("get_character", id, characters[id])
    ELSE Err("get_character", id, "NotFound")

CharacterNullable == {"lineage", "occupation", "description", "personality", "motivations",
                      "secrets", "voice_notes", "stat_block_json"}

update_character_impl(id, args) ==
    /\ IF id \in DOMAIN characters
       THEN LET active == Patch(characters[id], args, CharacterNullable)
            IN /\ characters' = [characters EXCEPT ![id] = active]
               /\ search_index' = characters_au(search_index, id, characters[id], active)
               /\ result' = Ok("update_character", id, active)
       ELSE /\ result' = Err("update_character", id, "NotFound")
            /\ UNCHANGED <<characters, search_index>>
    /\ UNCHANGED <<campaigns, players, locations, organizations, quests, heroes,
                   sessions, timeline_events, secrets, relationships, tags, entity_tags,
                   ai_conversations, ai_messages, nextId>>

\* The delete also removes the entity tags that point at the character.
delete_character_with_cleanup(id) ==
    /\ characters' = DeleteKeys(characters, {id})
    /\ search_index' = IF id \in DOMAIN characters THEN characters_ad(search_index, id)
                       ELSE search_index
    /\ entity_tags' = {et \in entity_tags :
                          ~(et.entity_type = "character" /\ et.entity_id = id)}
    /\ result' = Ok("delete_character", id, Removed(characters, id))
    /\ UNCHANGED <<campaigns, players, locations, organizations, quests, heroes,
                   sessions, timeline_events, secrets, relationships, tags,
                   ai_conversations, ai_messages, nextId>>

delete_character_impl(id) ==
    /\ characters' = DeleteKeys(characters, {id})
    /\ search_index' = IF id \in DOMAIN characters THEN characters_ad(search_index, id)
                       ELSE search_index
    /\ result' = Ok("delete_character", id, Removed(characters, id))
    /\ UNCHANGED <<campaigns, players, locations, organizations, quests, heroes,
                   sessions, timeline_events, secrets, relationships, tags, entity_tags,
                   ai_conversations, ai_messages, nextId>>

\* -------------------- locations (commands/location.rs)

\* CreateLocationInput::validate
ValidCreateLocationInput(name, location_type, description) ==
    /\ ValidName(name)
    /\ validate_location_type(location_type)
    /\ ValidText(description)

create_location_impl(campaign_id, name, location_type, parent_id, description) ==
    /\ CanAllocate
    /\ LET id == nextId
           model == [campaign_id |-> campaign_id, parent_id |-> parent_id, name |-> name,
                     location_type |-> location_type, description |-> description,
                     detail_level |-> 0, gm_notes |-> None]
       IN IF ~ValidCreateLocationInput(name, location_type, description)
          THEN /\ result' = Err("create_location", None, "Validation")
               /\ UNCHANGED <<locations, search_index, nextId>>
          ELSE IF /\ campaign_id \in DOMAIN campaigns
                  /\ parent_id = None \/ parent_id[1] \in DOMAIN locations
          THEN /\ locations' = Insert(locations, id, model)
               /\ search_index' = locations_ai(search_index, id, model)
               /\ nextId' = nextId + 1
               /\ result' = Ok("create_location", id, model)
          ELSE /\ result' = Err("create_location", None, "Database")
               /\ UNCHANGED <<locations, search_index, nextId>>
    /\ UNCHANGED <<campaigns, players, characters, organizations, quests, heroes,
                   sessions, timeline_events, secrets, relationships, tags, entity_tags,
                   ai_conversations, ai_messages>>

get_location_impl(id) ==
    IF id \in DOMAIN locations THEN Ok("get_location", id, locations[id])
    ELSE Err("get_location", id, "NotFound")

LocationNullable == {"parent_id", "description", "gm_notes"}

update_location_impl(id, args) ==
    /\ IF id \notin DOMAIN locations
       THEN /\ result' = Err("update_location", id, "NotFound")
            /\ UNCHANGED <<locations, search_index>>
       ELSE LET active == Patch(locations[id], args, LocationNullable)
            IN IF active.parent_id = None \/ active.parent_id[1] \in DOMAIN locations
               THEN /\ locations' = [locations EXCEPT ![id] = active]
                    /\ search_index' = locations_au(search_index, id, locations[id], active)
                    /\ result' = Ok("update_location", id, active)
               ELSE /\ result' = Err("update_location", id, "Database")
                    /\ UNCHANGED <<locations, search_index>>
    /\ UNCHANGED <<campaigns, players, characters, organizations, quests, heroes,
                   sessions, timeline_events, secrets, relationships, tags, entity_tags,
                   ai_conversations, ai_messages, nextId>>

delete_location_impl(id) ==
    LET gone == {id} \cap DOMAIN locations
        locs1 == LocationsAfterDelete(locations, gone)
    IN /\ locations' = locs1
       /\ search_index' = locations_au_each(IndexDeleteAll(search_index, "location", gone),
                                            locs1, Rewritten(locations, locs1))
       /\ result' = Ok("delete_location", id, Removed(locations, id))
       /\ UNCHANGED <<campaigns, players, characters, organizations, quests, heroes,
                      sessions, timeline_events, secrets, relationships, tags, entity_tags,
                      ai_conversations, ai_messages, nextId>>

\* -------------------- organizations (commands/organization.rs)

\* CreateOrganizationInput::validate
ValidCreateOrganizationInput(name, org_type, description, goals, resources) ==
    /\ ValidName(name)
    /\ validate_org_type(org_type)
    /\ ValidText(description) /\ ValidText(goals) /\ ValidText(resources)

create_organization_impl(campaign_id, name, org_type, description, goals, resources) ==
    /\ CanAllocate
    /\ LET id == nextId
           model == [campaign_id |-> campaign_id, name |-> name, org_type |-> org_type,
                     description |-> description, goals |-> goals, resources |-> resources,
                     reputation |-> None, secrets |-> None, is_active |-> TRUE]
       IN IF ~ValidCreateOrganizationInput(name, org_type, description, goals, resources)
          THEN /\ result' = Err("create_organization", None, "Validation")
               /\ UNCHANGED <<organizations, search_index, nextId>>
          ELSE IF campaign_id \in DOMAIN campaigns
          THEN /\ organizations' = Insert(organizations, id, model)
               /\ search_index' = organizations_ai(search_index, id, model)
               /\ nextId' = nextId + 1
               /\ result' = Ok("create_organization", id, model)
          ELSE /\ result' = Err("create_organization", None, "Database")
               /\ UNCHANGED <<organizations, search_index, nextId>>
    /\ UNCHANGED <<campaigns, players, locations, characters, quests, heroes, sessions,
                   timeline_events, secrets, relationships, tags, entity_tags,
                   ai_conversations, ai_messages>>

get_organization(id) ==
    IF id \in DOMAIN organizations THEN Ok("get_organization", id, organizations[id])
    ELSE Err("get_organization", id, "NotFound")

OrganizationNullable == {"description", "goals", "resources", "reputation", "secrets"}

update_organization(id, args) ==
    /\ IF id \in DOMAIN organizations
       THEN LET active == Patch(organizations[id], args, OrganizationNullable)
            IN /\ organizations' = [organizations EXCEPT ![id] = active]
               /\ search_index' = organizations_au(search_index, id, organizations[id], active)
               /\ result' = Ok("update_organization", id, active)
       ELSE /\ result' = Err("update_organization", id, "NotFound")
            /\ UNCHANGED <<organizations, search_index>>
    /\ UNCHANGED <<campaigns, players, locations, characters, quests, heroes, sessions,
                   timeline_events, secrets, relationships, tags, entity_tags,
                   ai_conversations, ai_messages, nextId>>

delete_organization(id) ==
    /\ organizations' = DeleteKeys(organizations, {id})
    /\ search_index' = IF id \in DOMAIN organizations
                       THEN organizations_ad(search_index, id) ELSE search_index
    /\ result' = Ok("delete_organization", id, Removed(organizations, id))
    /\ UNCHANGED <<campaigns, players, locations, characters, quests, heroes, sessions,
                   timeline_events, secrets, relationships, tags, entity_tags,
                   ai_conversations, ai_messages, nextId>>

\* -------------------- quests (commands/quest.rs)

create_quest(campaign_id, name, plot_type, description, hook) ==
    /\ CanAllocate
    /\ LET id == nextId
           model == [campaign_id |-> campaign_id, name |-> name, status |-> "planned",
                     plot_type |-> IF plot_type = None THEN "side" ELSE plot_type[1],
                     description |-> description, hook |-> hook, objectives |-> None,
                     complications |-> None, resolution |-> None, reward |-> None]
       IN IF campaign_id \in DOMAIN campaigns
          THEN /\ quests' = Insert(quests, id, model)
               /\ search_index' = quests_ai(search_index, id, model)
               /\ nextId' = nextId + 1
               /\ result' = Ok("create_quest", id, model)
          ELSE /\ result' = Err("create_quest", None, "Database")
               /\ UNCHANGED <<quests, search_index, nextId>>
    /\ UNCHANGED <<campaigns, players, locations, characters, organizations, heroes,
                   sessions, timeline_events, secrets, relationships, tags, entity_tags,
                   ai_conversations, ai_messages>>

get_quest(id) ==
    IF id \in DOMAIN quests THEN Ok("get_quest", id, quests[id])
    ELSE Err("get_quest", id, "NotFound")

QuestNullable == {"description", "hook", "objectives", "complications", "resolution", "reward"}

update_quest(id, args) ==
    /\ IF id \in DOMAIN quests
       THEN LET active == Patch(quests[id], args, QuestNullable)
            IN /\ quests' = [quests EXCEPT ![id] = active]
               /\ search_index' = quests_au(search_index, id, quests[id], active)
               /\ result' = Ok("update_quest", id, active)
       ELSE /\ result' = Err("update_quest", id, "NotFound")
            /\ UNCHANGED <<quests, search_index>>
    /\ UNCHANGED <<campaigns, players, locations, characters, organizations, heroes,
                   sessions, timeline_events, secrets, relationships, tags, entity_tags,
                   ai_conversations, ai_messages, nextId>>

delete_quest(id) ==
    /\ quests' = DeleteKeys(quests, {id})
    /\ search_index' = IF id \in DOMAIN quests THEN quests_ad(search_index, id)
                       ELSE search_index
    /\ result' = Ok("delete_quest", id, Removed(quests, id))
    /\ UNCHANGED <<campaigns, players, locations, characters, organizations, heroes,
                   sessions, timeline_events, secrets, relationships, tags, entity_tags,
                   ai_conversations, ai_messages, nextId>>

\* -------------------- players (commands/player.rs)

create_player(campaign_id, name, preferences, boundaries) ==
    /\ CanAllocate
    /\ LET id == nextId
           model == [campaign_id |-> campaign_id, name |-> name,
                     preferences |-> preferences, boundaries |-> boundaries,
                     notes |-> None]
       IN IF campaign_id \in DOMAIN campaigns
          THEN /\ players' = Insert(players, id, model)
               /\ nextId' = nextId + 1
               /\ result' = Ok("create_player", id, model)
          ELSE /\ result' = Err("create_player", None, "Database")
               /\ UNCHANGED <<players, nextId>>
    /\ UNCHANGED <<campaigns, locations, characters, organizations, quests, heroes,
                   sessions, timeline_events, secrets, relationships, tags, entity_tags,
                   search_index, ai_conversations, ai_messages>>

get_player(id) ==
    IF id \in DOMAIN players THEN Ok("get_player", id, players[id])
    ELSE Err("get_player", id, "NotFound")

PlayerNullable == {"preferences", "boundaries", "notes"}

update_player(id, args) ==
    /\ IF id \in DOMAIN players
       THEN LET active == Patch(players[id], args, PlayerNullable)
            IN /\ players' = [players EXCEPT ![id] = active]
               /\ result' = Ok("update_player", id, active)
       ELSE /\ result' = Err("update_player", id, "NotFound")
            /\ UNCHANGED players
    /\ UNCHANGED <<campaigns, locations, characters, organizations, quests, heroes,
                   sessions, timeline_events, secrets, relationships, tags, entity_tags,
                   search_index, ai_conversations, ai_messages, nextId>>

delete_player(id) ==
    LET gone == {id} \cap DOMAIN players
        hers1 == HeroesAfterPlayerDelete(heroes, gone)
    IN /\ players' = DeleteKeys(players, gone)
       /\ heroes' = hers1
       /\ search_index' = heroes_au_each(search_index, hers1, Rewritten(heroes, hers1))
       /\ result' = Ok("delete_player", id, Removed(players, id))
       /\ UNCHANGED <<campaigns, locations, characters, organizations, quests, sessions,
                      timeline_events, secrets, relationships, tags, entity_tags,
                      ai_conversations, ai_messages, nextId>>

\* -------------------- heroes (commands/hero.rs)

create_hero(campaign_id, name, player_id, lineage, classes, description) ==
    /\ CanAllocate
    /\ LET id == nextId
           model == [campaign_id |-> campaign_id, player_id |-> player_id, name |-> name,
                     lineage |-> lineage, classes |-> classes, description |-> description,
                     backstory |-> None, goals |-> None, bonds |-> None,
                     is_active |-> TRUE]
       IN IF /\ campaign_id \in DOMAIN campaigns
             /\ player_id = None \/ player_id[1] \in DOMAIN players
          THEN /\ heroes' = Insert(heroes, id, model)
               /\ search_index' = heroes_ai(search_index, id, model)
               /\ nextId' = nextId + 1
               /\ result' = Ok("create_hero", id, model)
          ELSE /\ result' = Err("create_hero", None, "Database")
               /\ UNCHANGED <<heroes, search_index, nextId>>
    /\ UNCHANGED <<campaigns, players, locations, characters, organizations, quests,
                   sessions, timeline_events, secrets, relationships, tags, entity_tags,
                   ai_conversations, ai_messages>>

get_hero(id) ==
    IF id \in DOMAIN heroes THEN Ok("get_hero", id, heroes[id])
    ELSE Err("get_hero", id, "NotFound")

HeroNullable == {"player_id", "lineage", "classes", "description", "backstory", "goals",
                 "bonds"}

update_hero(id, args) ==
    /\ IF id \notin DOMAIN heroes
       THEN /\ result' = Err("update_hero", id, "NotFound")
            /\ UNCHANGED <<heroes, search_index>>
       ELSE LET active == Patch(heroes[id], args, HeroNullable)
            IN IF active.player_id = None \/ active.player_id[1] \in DOMAIN players
               THEN /\ heroes' = [heroes EXCEPT ![id] = active]
                    /\ search_index' = heroes_au(search_index, id, heroes[id], active)
                    /\ result' = Ok("update_hero", id, active)
               ELSE /\ result' = Err("update_hero", id, "Database")
                    /\ UNCHANGED <<heroes, search_index>>
    /\ UNCHANGED <<campaigns, players, locations, characters, organizations, quests,
                   sessions, timeline_events, secrets, relationships, tags, entity_tags,
                   ai_conversations, ai_messages, nextId>>

delete_hero(id) ==
    /\ heroes' = DeleteKeys(heroes, {id})
    /\ search_index' = IF id \in DOMAIN heroes THEN heroes_ad(search_index, id)
                       ELSE search_index
    /\ result' = Ok("delete_hero", id, Removed(heroes, id))
    /\ UNCHANGED <<campaigns, players, locations, characters, organizations, quests,
                   sessions, timeline_events, secrets, relationships, tags, entity_tags,
                   ai_conversations, ai_messages, nextId>>

\* -------------------- sessions (commands/session.rs)

\* chrono::NaiveDate::parse_from_str(&d, "%Y-%m-%d").ok()
GoodDate == "2025-01-31"

BadDate == "31/01/2025"

ParseDate(d) == IF d = GoodDate THEN Some(d) ELSE None

\* idx_sessions_campaign_number: UNIQUE (campaign_id, session_number)
SessionNumberFree(id, campaign_id, n) ==
    \A j \in DOMAIN sessions \ {id} :
        ~(sessions[j].campaign_id = campaign_id /\ sessions[j].session_number = n)

create_session(campaign_id, session_number, title, date) ==
    /\ CanAllocate
    /\ LET id == nextId
           model == [campaign_id |-> campaign_id, session_number |-> session_number,
                     date |-> IF date = None THEN None ELSE ParseDate(date[1]),
                     title |-> title, planned_content |-> None, notes |-> None,
                     summary |-> None, highlights |-> None]
       IN IF /\ campaign_id \in DOMAIN campaigns
             /\ SessionNumberFree(id, campaign_id, session_number)
          THEN /\ sessions' = Insert(sessions, id, model)
               /\ search_index' = sessions_ai(search_index, id, model)
               /\ nextId' = nextId + 1
               /\ result' = Ok("create_session", id, model)
          ELSE /\ result' = Err("create_session", None, "Database")
               /\ UNCHANGED <<sessions, search_index, nextId>>
    /\ UNCHANGED <<campaigns, players, locations, characters, organizations, quests,
                   heroes, timeline_events, secrets, relationships, tags, entity_tags,
                   ai_conversations, ai_messages>>

get_session(id) ==
    IF id \in DOMAIN sessions THEN Ok("get_session", id, sessions[id])
    ELSE Err("get_session", id, "NotFound")

SessionNullable == {"title", "planned_content", "notes", "summary", "highlights"}

\* The supplied date is parsed first: `active.date = Set(parsed)`.
update_session(id, args) ==
    /\ IF id \notin DOMAIN sessions
       THEN /\ result' = Err("update_session", id, "NotFound")
            /\ UNCHANGED <<sessions, search_index>>
       ELSE LET merged == Patch(sessions[id], [f \in DOMAIN args \ {"date"} |-> args[f]],
                                SessionNullable)
                active == IF args.date = None THEN merged
                          ELSE [merged EXCEPT !.date = ParseDate(args.date[1])]
            IN IF SessionNumberFree(id, active.campaign_id, active.session_number)
               THEN /\ sessions' = [sessions EXCEPT ![id] = active]
                    /\ search_index' = sessions_au(search_index, id, sessions[id], active)
                    /\ result' = Ok("update_session", id, active)
               ELSE /\ result' = Err("update_session", id, "Database")
                    /\ UNCHANGED <<sessions, search_index>>
    /\ UNCHANGED <<campaigns, players, locations, characters, organizations, quests,
                   heroes, timeline_events, secrets, relationships, tags, entity_tags,
                   ai_conversations, ai_messages, nextId>>

delete_session(id) ==
    /\ sessions' = DeleteKeys(sessions, {id})
    /\ search_index' = IF id \in DOMAIN sessions THEN sessions_ad(search_index, id)
                       ELSE search_index
    /\ result' = Ok("delete_session", id, Removed(sessions, id))
    /\ UNCHANGED <<campaigns, players, locations, characters, organizations, quests,
                   heroes, timeline_events, secrets, relationships, tags, entity_tags,
                   ai_conversations, ai_messages, nextId>>

\* -------------------- timeline events (commands/timeline.rs)

create_timeline_event(campaign_id, title, date_display, sort_order, description, significance) ==
    /\ CanAllocate
    /\ LET id == nextId
           model == [campaign_id |-> campaign_id, date_display |-> date_display,
                     sort_order |-> IF sort_order = None THEN 0 ELSE sort_order[1],
                     title |-> title, description |-> description,
                     significance |-> IF significance = None THEN "local"
                                      ELSE significance[1],
                     is_public |-> TRUE]
       IN IF campaign_id \in DOMAIN campaigns
          THEN /\ timeline_events' = Insert(timeline_events, id, model)
               /\ nextId' = nextId + 1
               /\ result' = Ok("create_timeline_event", id, model)
          ELSE /\ result' = Err("create_timeline_event", None, "Database")
               /\ UNCHANGED <<timeline_events, nextId>>
    /\ UNCHANGED <<campaigns, players, locations, characters, organizations, quests,
                   heroes, sessions, secrets, relationships, tags, entity_tags,
                   search_index, ai_conversations, ai_messages>>

get_timeline_event(id) ==
    IF id \in DOMAIN timeline_events
    THEN Ok("get_timeline_event", id, timeline_events[id])
    ELSE Err("get_timeline_event", id, "NotFound")

TimelineNullable == {"description"}

update_timeline_event(id, args) ==
    /\ IF id \in DOMAIN timeline_events
       THEN LET active == Patch(timeline_events[id], args, TimelineNullable)
            IN /\ timeline_events' = [timeline_events EXCEPT ![id] = active]
               /\ result' = Ok("update_timeline_event", id, active)
       ELSE /\ result' = Err("update_timeline_event", id, "NotFound")
            /\ UNCHANGED timeline_events
    /\ UNCHANGED <<campaigns, players, locations, characters, organizations, quests,
                   heroes, sessions, secrets, relationships, tags, entity_tags,
                   search_index, ai_conversations, ai_messages, nextId>>

delete_timeline_event(id) ==
    /\ timeline_events' = DeleteKeys(timeline_events, {id})
    /\ result' = Ok("delete_timeline_event", id, Removed(timeline_events, id))
    /\ UNCHANGED <<campaigns, players, locations, characters, organizations, quests,
                   heroes, sessions, secrets, relationships, tags, entity_tags,
                   search_index, ai_conversations, ai_messages, nextId>>

\* -------------------- secrets (commands/secret.rs)

create_secret(campaign_id, title, content, related_entity_type, related_entity_id) ==
    /\ CanAllocate
    /\ LET id == nextId
           model == [campaign_id |-> campaign_id, title |-> title, content |-> content,
                     related_entity_type |-> related_entity_type,
                     related_entity_id |-> related_entity_id, known_by |-> None,
                     revealed |-> FALSE, revealed_in_session |-> None]
       IN IF campaign_id \in DOMAIN campaigns
          THEN /\ secrets' = Insert(secrets, id, model)
               /\ nextId' = nextId + 1
               /\ result' = Ok("create_secret", id, model)
          ELSE /\ result' = Err("create_secret", None, "Database")
               /\ UNCHANGED <<secrets, nextId>>
    /\ UNCHANGED <<campaigns, players, locations, characters, organizations, quests,
                   heroes, sessions, timeline_events, relationships, tags, entity_tags,
                   search_index, ai_conversations, ai_messages>>

get_secret(id) ==
    IF id \in DOMAIN secrets THEN Ok("get_secret", id, secrets[id])
    ELSE Err("get_secret", id, "NotFound")

SecretNullable == {"related_entity_type", "related_entity_id", "known_by",
                   "revealed_in_session"}

update_secret(id, args) ==
    /\ IF id \in DOMAIN secrets
       THEN LET active == Patch(secrets[id], args, SecretNullable)
            IN /\ secrets' = [secrets EXCEPT ![id] = active]
               /\ result' = Ok("update_secret", id, active)
       ELSE /\ result' = Err("update_secret", id, "NotFound")
            /\ UNCHANGED secrets
    /\ UNCHANGED <<campaigns, players, locations, characters, organizations, quests,
                   heroes, sessions, timeline_events, relationships, tags, entity_tags,
                   search_index, ai_conversations, ai_messages, nextId>>

delete_secret(id) ==
    /\ secrets' = DeleteKeys(secrets, {id})
    /\ result' = Ok("delete_secret", id, Removed(secrets, id))
    /\ UNCHANGED <<campaigns, players, locations, characters, organizations, quests,
                   heroes, sessions, timeline_events, relationships, tags, entity_tags,
                   search_index, ai_conversations, ai_messages, nextId>>

\* -------------------- relationships (commands/relationship.rs)

create_relationship_impl(campaign_id, source_type, source_id, target_type, target_id, relationship_type, description, is_bidirectional, strength) ==
    /\ CanAllocate
    /\ LET id == nextId
           model == [campaign_id |-> campaign_id, source_type |-> source_type,
                     source_id |-> source_id, target_type |-> target_type,
                     target_id |-> target_id, relationship_type |-> relationship_type,
                     description |-> description,
                     is_bidirectional |-> IF is_bidirectional = None THEN FALSE
                                          ELSE is_bidirectional[1],
                     strength |-> strength, is_public |-> TRUE]
       IN IF campaign_id \in DOMAIN campaigns
          THEN /\ relationships' = Insert(relationships, id, model)
               /\ nextId' = nextId + 1
               /\ result' = Ok("create_relationship", id, model)
          ELSE /\ result' = Err("create_relationship", None, "Database")
               /\ UNCHANGED <<relationships, nextId>>
    /\ UNCHANGED <<campaigns, players, locations, characters, organizations, quests,
                   heroes, sessions, timeline_events, secrets, tags, entity_tags,
                   search_index, ai_conversations, ai_messages>>

get_relationship_impl(id) ==
    IF id \in DOMAIN relationships THEN Ok("get_relationship", id, relationships[id])
    ELSE Err("get_relationship", id, "NotFound")

\* Keys of the relationships with the entity as source or as target.
get_entity_relationships_impl(entity_type, entity_id) ==
    {i \in DOMAIN relationships :
        \/ relationships[i].source_type = entity_type /\ relationships[i].source_id = entity_id
        \/ relationships[i].target_type = entity_type /\ relationships[i].target_id = entity_id}

RelationshipNullable == {"description", "strength"}

update_relationship_impl(id, args) ==
    /\ IF id \in DOMAIN relationships
       THEN LET active == Patch(relationships[id], args, RelationshipNullable)
            IN /\ relationships' = [relationships EXCEPT ![id] = active]
               /\ result' = Ok("update_relationship", id, active)
       ELSE /\ result' = Err("update_relationship", id, "NotFound")
            /\ UNCHANGED relationships
    /\ UNCHANGED <<campaigns, players, locations, characters, organizations, quests,
                   heroes, sessions, timeline_events, secrets, tags, entity_tags,
                   search_index, ai_conversations, ai_messages, nextId>>

delete_relationship_impl(id) ==
    /\ relationships' = DeleteKeys(relationships, {id})
    /\ result' = Ok("delete_relationship", id, Removed(relationships, id))
    /\ UNCHANGED <<campaigns, players, locations, characters, organizations, quests,
                   heroes, sessions, timeline_events, secrets, tags, entity_tags,
                   search_index, ai_conversations, ai_messages, nextId>>

\* -------------------- tags (commands/tag.rs)

\* The index compares names without regard to letter case (COLLATE NOCASE).
TagNameFreeNoCase(campaign_id, name) ==
    LET lower(t) == [i \in 1..Len(t) |-> IF t[i] = "A" THEN "a" ELSE t[i]]
    IN \A j \in DOMAIN tags :
          ~(tags[j].campaign_id = campaign_id /\ lower(tags[j].name) = lower(name))

\* idx_tags_campaign_name: UNIQUE (campaign_id, name); the column has the default
\* BINARY collation, names are compared character by character.
TagNameFree(campaign_id, name) ==
    \A j \in DOMAIN tags : ~(tags[j].campaign_id = campaign_id /\ tags[j].name = name)

create_tag_impl(campaign_id, name, color) ==
    /\ CanAllocate
    /\ LET id == nextId
           model == [campaign_id |-> campaign_id, name |-> name, color |-> color]
       IN IF campaign_id \in DOMAIN campaigns /\ TagNameFree(campaign_id, name)
          THEN /\ tags' = Insert(tags, id, model)
               /\ nextId' = nextId + 1
               /\ result' = Ok("create_tag", id, model)
          ELSE /\ result' = Err("create_tag", None, "Database")
               /\ UNCHANGED <<tags, nextId>>
    /\ UNCHANGED <<campaigns, players, locations, characters, organizations, quests,
                   heroes, sessions, timeline_events, secrets, relationships,
                   entity_tags, search_index, ai_conversations, ai_messages>>

get_tag_impl(id) ==
    IF id \in DOMAIN tags THEN Ok("get_tag", id, tags[id])
    ELSE Err("get_tag", id, "NotFound")

delete_tag_impl(id) ==
    LET gone == {id} \cap DOMAIN tags
    IN /\ tags' = DeleteKeys(tags, gone)
       /\ entity_tags' = EntityTagsAfterTagDelete(entity_tags, gone)
       /\ result' = Ok("delete_tag", id, Removed(tags, id))
       /\ UNCHANGED <<campaigns, players, locations, characters, organizations, quests,
                      heroes, sessions, timeline_events, secrets, relationships,
                      search_index, ai_conversations, ai_messages, nextId>>

\* entity_tags has the composite primary key (tag_id, entity_type, entity_id) and
\* fk_entity_tags_tag; entity_type / entity_id reference nothing.
add_entity_tag_impl(tag_id, entity_type, entity_id) ==
    LET model == [tag_id |-> tag_id, entity_type |-> entity_type, entity_id |-> entity_id]
    IN /\ IF tag_id \in DOMAIN tags /\ model \notin entity_tags
          THEN /\ entity_tags' = entity_tags \cup {model}
               /\ result' = Ok("add_entity_tag", tag_id, TRUE)
          ELSE /\ result' = Err("add_entity_tag", tag_id, "Database")
               /\ UNCHANGED entity_tags
       /\ UNCHANGED <<campaigns, players, locations, characters, organizations, quests,
                      heroes, sessions, timeline_events, secrets, relationships, tags,
                      search_index, ai_conversations, ai_messages, nextId>>

remove_entity_tag_impl(tag_id, entity_type, entity_id) ==
    LET model == [tag_id |-> tag_id, entity_type |-> entity_type, entity_id |-> entity_id]
    IN /\ entity_tags' = entity_tags \ {model}
       /\ result' = Ok("remove_entity_tag", tag_id, model \in entity_tags)
       /\ UNCHANGED <<campaigns, players, locations, characters, organizations, quests,
                      heroes, sessions, timeline_events, secrets, relationships, tags,
                      search_index, ai_conversations, ai_messages, nextId>>

\* Keys of the tags attached to the entity (the handler returns their rows by name).
get_entity_tags_impl(entity_type, entity_id) ==
    LET tag_ids == {et.tag_id : et \in {x \in entity_tags :
                        x.entity_type = entity_type /\ x.entity_id = entity_id}}
    IN {i \in DOMAIN tags : i \in tag_ids}

\* -------------------- search (commands/search.rs)

\* char::is_whitespace, on the characters that occur: space and tab are White_Space.
IsWhitespace(ch) == ch \in {" ", "\t"}

\* str::split_whitespace
RECURSIVE SplitWhitespace(_, _)
SplitWhitespace(s, word) ==
    IF s = <<>> THEN (IF word = <<>> THEN <<>> ELSE <<word>>)
    ELSE IF IsWhitespace(Head(s))
         THEN (IF word = <<>> THEN <<>> ELSE <<word>>) \o SplitWhitespace(Tail(s), <<>>)
         ELSE SplitWhitespace(Tail(s), Append(word, Head(s)))

\* Only the first quote of the word is removed.
RemoveFirstQuote(w) ==
    IF \E i \in 1..Len(w) : w[i] = "\""
    THEN LET i == CHOOSE i \in 1..Len(w) : w[i] = "\"" /\ \A j \in 1..(i - 1) : w[j] # "\""
         IN SubSeq(w, 1, i - 1) \o SubSeq(w, i + 1, Len(w))
    ELSE w

\* str::replace('"', "")
RemoveQuotes(w) == SelectSeq(w, LAMBDA ch : ch # "\"")

RECURSIVE JoinSpace(_)
JoinSpace(words) ==
    IF words = <<>> THEN <<>>
    ELSE IF Len(words) = 1 THEN words[1]
    ELSE words[1] \o Space \o JoinSpace(Tail(words))

build_fts_query(query) ==
    LET words == SplitWhitespace(query, <<>>)
    IN JoinSpace([i \in 1..Len(words) |-> Append(RemoveQuotes(words[i]), "*")])

\* unicode61 folds case; only the letters the triggers can write in upper case occur.
Fold(ch) == IF ch = "S" THEN "s" ELSE ch

TokenChar(ch) == ch \notin {" ", "\"", "*", "-"}

\* The tokens of an indexed column.
RECURSIVE Tokenize(_, _)
Tokenize(s, tok) ==
    IF s = <<>> THEN (IF tok = <<>> THEN {} ELSE {tok})
    ELSE IF TokenChar(Head(s))
         THEN Tokenize(Tail(s), Append(tok, Fold(Head(s))))
         ELSE (IF tok = <<>> THEN {} ELSE {tok}) \cup Tokenize(Tail(s), <<>>)

TypeText(type) ==
    CASE type = "character"    -> <<"c", "h", "a", "r", "a", "c", "t", "e", "r">>
      [] type = "location"     -> <<"l", "o", "c", "a", "t", "i", "o", "n">>
      [] type = "organization" -> <<"o", "r", "g", "a", "n", "i", "z", "a", "t", "i", "o", "n">>
      [] type = "quest"        -> <<"q", "u", "e", "s", "t">>
      [] type = "hero"         -> <<"h", "e", "r", "o">>
      [] type = "session"      -> <<"s", "e", "s", "s", "i", "o", "n">>

\* entity_type, name and content are indexed; entity_id and campaign_id are UNINDEXED.
EntryTokens(e) ==
    Tokenize(TypeText(e.entity_type), <<>>) \cup Tokenize(e.name, <<>>)
        \cup Tokenize(e.content, <<>>)

IsPrefix(p, t) == Len(p) <= Len(t) /\ SubSeq(t, 1, Len(p)) = p

\* The prefix terms of an FTS5 query string "w1* w2* ...".
QueryTerms(fts_query) ==
    LET words == SplitWhitespace(fts_query, <<>>)
    IN {SubSeq(words[i], 1, Len(words[i]) - 1) : i \in 1..Len(words)}

\* FTS5 rejects the empty expression and a bare "*".
QuerySyntaxOk(fts_query) ==
    /\ QueryTerms(fts_query) # {}
    /\ \A p \in QueryTerms(fts_query) : p # <<>>

\* search_index MATCH $1: every term is the prefix of some token of the row.
Match(e, fts_query) ==
    \A p \in QueryTerms(fts_query) :
        \E t \in EntryTokens(e) : IsPrefix([i \in 1..Len(p) |-> Fold(p[i])], t)

DefaultLimit == 50

\* The columns of search_index, numbered from 0 as FTS5 numbers them (UNINDEXED
\* columns are counted).
SearchIndexColumns == <<"entity_type", "entity_id", "campaign_id", "name", "content">>

\* The column number in snippet(search_index, 3, '<mark>', '</mark>', '...', 32).
SnippetColumn == 3

ColumnText(e, n) ==
    LET col == SearchIndexColumns[n + 1]
    IN IF col = "entity_type" THEN TypeText(e.entity_type) ELSE e[col]

\* A token of the column, between '<mark>' and '</mark>' when a query term is a
\* prefix of it.
Marked(tok, terms) ==
    IF tok = <<>> THEN <<>>
    ELSE IF \E p \in terms : IsPrefix([i \in 1..Len(p) |-> Fold(p[i])],
                                      [i \in 1..Len(tok) |-> Fold(tok[i])])
         THEN <<"<mark>">> \o tok \o <<"</mark>">>
         ELSE tok

\* The text with its matching tokens marked. The texts here have fewer than 32
\* tokens, so the excerpt is the whole text and no '...' is added.
RECURSIVE Highlight(_, _, _)
Highlight(s, tok, terms) ==
    IF s = <<>> THEN Marked(tok, terms)
    ELSE IF TokenChar(Head(s))
         THEN Highlight(Tail(s), Append(tok, Head(s)), terms)
         ELSE Marked(tok, terms) \o <<Head(s)>> \o Highlight(Tail(s), <<>>, terms)

Snippet(e, fts_query) ==
    Highlight(ColumnText(e, SnippetColumn), <<>>, QueryTerms(fts_query))

\* rank is not modelled.
SearchResult(e, fts_query) ==
    [entity_type |-> e.entity_type, entity_id |-> e.entity_id, name |-> e.name,
     snippet |-> Snippet(e, fts_query)]

MatchedAnyCampaign(si, campaign_id, fts_query) ==
    {e \in BagToSet(si) : Match(e, fts_query)}

\* WHERE search_index MATCH $1 AND campaign_id = $2
Matched(si, campaign_id, fts_query) ==
    {e \in BagToSet(si) : Match(e, fts_query) /\ e.campaign_id = campaign_id}

\* A u64 as four 16-bit words, most significant first.
Word == 2 ^ 16

U64(n) == <<0, 0, 0, n>>

U64Max == <<Word - 1, Word - 1, Word - 1, Word - 1>>

\* `limit as i64` is negative: bit 63 of the u64 becomes the sign.
CastIsNegative(u) == u[1] >= Word \div 2

\* The LIMIT clause is left out.
Unlimited(n, u) == n

\* LIMIT (limit as i64) over n rows, n < 2^16: a negative LIMIT is no limit.
Limited(n, u) ==
    IF CastIsNegative(u) THEN n
    ELSE IF u[1] = 0 /\ u[2] = 0 /\ u[3] = 0 /\ u[4] < n THEN u[4]
    ELSE n

\* The subsets of S that have k elements.
RECURSIVE KSubsets(_, _)
KSubsets(S, k) ==
    IF k = 0 THEN {{}}
    ELSE IF Cardinality(S) < k THEN {}
    ELSE IF Cardinality(S) = k THEN {S}
    ELSE LET x == CHOOSE x \in S : TRUE
         IN KSubsets(S \ {x}, k) \cup {T \cup {x} : T \in KSubsets(S \ {x}, k - 1)}

\* The rows whose entity_type is in the list; every row when there is no list.
FilterByEntityTypes(rows, entity_types) ==
    IF entity_types = None THEN rows
    ELSE {e \in rows : \E i \in 1..Len(entity_types[1]) :
                           entity_types[1][i] = e.entity_type}

\* let _ = entity_types: the list is dropped and the statement has no clause for it.
IgnoreEntityTypes(rows, entity_types) == rows

\* A failed query is answered with no results.
search_entities_lenient(campaign_id, query, entity_types, limit) ==
    /\ LET lim == IF limit = None THEN U64(DefaultLimit) ELSE limit[1]
           fts_query == build_fts_query(query)
           rows == Matched(search_index, campaign_id, fts_query)
       IN IF ~QuerySyntaxOk(fts_query)
          THEN result' = Ok("search_entities", campaign_id, {})
          ELSE \E page \in KSubsets(rows, Limited(Cardinality(rows), lim)) :
                  result' = Ok("search_entities", campaign_id,
                               {SearchResult(e, fts_query) : e \in page})
    /\ UNCHANGED <<campaigns, players, locations, characters, organizations, quests,
                   heroes, sessions, timeline_events, secrets, relationships, tags,
                   entity_tags, search_index, ai_conversations, ai_messages, nextId>>

\* What search_entities_impl can return over the index si. ORDER BY rank LIMIT $3:
\* rank is not modelled, any `limit` of the matched rows may be the ones returned.
SearchOutcomes(si, campaign_id, query, entity_types, limit) ==
    LET lim == IF limit = None THEN U64(DefaultLimit) ELSE limit[1]
        fts_query == build_fts_query(query)
        rows == IgnoreEntityTypes(Matched(si, campaign_id, fts_query), entity_types)
    IN IF ~QuerySyntaxOk(fts_query)
       THEN {Err("search_entities", campaign_id, "Database")}
       ELSE {Ok("search_entities", campaign_id,
                {SearchResult(e, fts_query) : e \in page}) :
                page \in KSubsets(rows, Limited(Cardinality(rows), lim))}

search_entities_impl(campaign_id, query, entity_types, limit) ==
    /\ result' \in SearchOutcomes(search_index, campaign_id, query, entity_types, limit)
    /\ UNCHANGED <<campaigns, players, locations, characters, organizations, quests,
                   heroes, sessions, timeline_events, secrets, relationships, tags,
                   entity_tags, search_index, ai_conversations, ai_messages, nextId>>

\* -------------------- AI conversations (commands/ai_conversation.rs)

\* ai_messages is kept in insertion order; the conversation of a (campaign, context).
FindConversationOfCampaign(campaign_id, context_type) ==
    {i \in DOMAIN ai_conversations : ai_conversations[i].campaign_id = campaign_id}

FindConversation(campaign_id, context_type) ==
    {i \in DOMAIN ai_conversations :
        /\ ai_conversations[i].campaign_id = campaign_id
        /\ ai_conversations[i].context_type = context_type}

get_or_create_conversation_impl(campaign_id, context_type) ==
    /\ LET existing == FindConversation(campaign_id, context_type)
       IN IF existing # {}
          THEN /\ \E i \in existing : result' = Ok("get_or_create_conversation", i,
                                                   ai_conversations[i])
               /\ UNCHANGED <<ai_conversations, nextId>>
          ELSE /\ CanAllocate
               /\ LET id == nextId
                      model == [campaign_id |-> campaign_id, context_type |-> context_type,
                                total_input_tokens |-> 0, total_output_tokens |-> 0,
                                total_cache_read_tokens |-> 0,
                                total_cache_creation_tokens |-> 0]
                  IN IF campaign_id \in DOMAIN campaigns
                     THEN /\ ai_conversations' = Insert(ai_conversations, id, model)
                          /\ nextId' = nextId + 1
                          /\ result' = Ok("get_or_create_conversation", id, model)
                     ELSE /\ result' = Err("get_or_create_conversation", None, "Database")
                          /\ UNCHANGED <<ai_conversations, nextId>>
    /\ UNCHANGED <<campaigns, players, locations, characters, organizations, quests,
                   heroes, sessions, timeline_events, secrets, relationships, tags,
                   entity_tags, search_index, ai_messages>>

MessagesOf(ms, conversation_id) ==
    SelectSeq(ms, LAMBDA m : m.conversation_id = conversation_id)

\* ORDER BY message_order ASC (insertion sort; rows of equal order keep table order).
RECURSIVE InsertByOrder(_, _)
InsertByOrder(sorted, m) ==
    IF sorted = <<>> THEN <<m>>
    ELSE IF m.message_order < Head(sorted).message_order THEN <<m>> \o sorted
    ELSE <<Head(sorted)>> \o InsertByOrder(Tail(sorted), m)

RECURSIVE OrderByMessageOrder(_)
OrderByMessageOrder(ms) ==
    IF ms = <<>> THEN <<>>
    ELSE InsertByOrder(OrderByMessageOrder(SubSeq(ms, 1, Len(ms) - 1)), ms[Len(ms)])

load_conversation_impl(campaign_id, context_type) ==
    LET found == FindConversation(campaign_id, context_type)
    IN IF found = {} THEN None
       ELSE LET conv == CHOOSE i \in found : TRUE
            IN Some([conversation |-> conv,
                     messages |-> OrderByMessageOrder(MessagesOf(ai_messages, conv))])

NextOrderIsCount(ms, conversation_id) == Len(MessagesOf(ms, conversation_id))

\* message_count as i32 + 1
NextOrder(ms, conversation_id) == Len(MessagesOf(ms, conversation_id)) + 1

add_message_impl(conversation_id, role, content) ==
    /\ LET model == [conversation_id |-> conversation_id, role |-> role,
                     content |-> content, tool_name |-> None, tool_input_json |-> None,
                     tool_data_json |-> None, proposal_json |-> None,
                     message_order |-> NextOrder(ai_messages, conversation_id)]
       IN IF conversation_id \in DOMAIN ai_conversations
          THEN /\ ai_messages' = Append(ai_messages, model)
               /\ result' = Ok("add_message", conversation_id, model)
          ELSE /\ result' = Err("add_message", conversation_id, "Database")
               /\ UNCHANGED ai_messages
    /\ UNCHANGED <<campaigns, players, locations, characters, organizations, quests,
                   heroes, sessions, timeline_events, secrets, relationships, tags,
                   entity_tags, search_index, ai_conversations, nextId>>

\* Only the input and output totals are reset.
ResetInputOutputOnly(conv) ==
    [conv EXCEPT !.total_input_tokens = 0, !.total_output_tokens = 0]

\* active.total_* = Set(0), four times.
ResetTotals(conv) ==
    [conv EXCEPT !.total_input_tokens = 0, !.total_output_tokens = 0,
                 !.total_cache_read_tokens = 0, !.total_cache_creation_tokens = 0]

clear_conversation_impl(conversation_id) ==
    /\ ai_messages' = SelectSeq(ai_messages, LAMBDA m : m.conversation_id # conversation_id)
    /\ ai_conversations' =
          [i \in DOMAIN ai_conversations |->
              IF i = conversation_id THEN ResetTotals(ai_conversations[i])
              ELSE ai_conversations[i]]
    /\ result' = Ok("clear_conversation", conversation_id,
                    Len(MessagesOf(ai_messages, conversation_id)) > 0)
    /\ UNCHANGED <<campaigns, players, locations, characters, organizations, quests,
                   heroes, sessions, timeline_events, secrets, relationships, tags,
                   entity_tags, search_index, nextId>>

\* The four totals of a conversation row.
Totals(row) ==
    <<row.total_input_tokens, row.total_output_tokens, row.total_cache_read_tokens,
      row.total_cache_creation_tokens>>

\* conversation.total_* + *_tokens, four i32 additions.
Added(totals, deltas) == [k \in 1..4 |-> WrappingAdd(totals[k], deltas[k])]

\* An i32 `+` that leaves the range panics where overflow checks are compiled in (the
\* dev profile) and wraps where they are not (the release profile); the handler runs
\* in either build.
update_token_counts_impl(conversation_id, deltas) ==
    /\ IF conversation_id \notin DOMAIN ai_conversations
       THEN /\ result' = Err("update_token_counts", conversation_id, "NotFound")
            /\ UNCHANGED ai_conversations
       ELSE LET conversation == ai_conversations[conversation_id]
                new == Added(Totals(conversation), deltas)
                active == [conversation EXCEPT !.total_input_tokens = new[1],
                                               !.total_output_tokens = new[2],
                                               !.total_cache_read_tokens = new[3],
                                               !.total_cache_creation_tokens = new[4]]
            IN \/ /\ ai_conversations' = [ai_conversations EXCEPT ![conversation_id] = active]
                  /\ result' = Ok("update_token_counts", conversation_id, active)
               \/ /\ \E k \in 1..4 : Overflows(Totals(conversation)[k], deltas[k])
                  /\ result' = Err("update_token_counts", conversation_id, "Panic")
                  /\ UNCHANGED ai_conversations
    /\ UNCHANGED <<campaigns, players, locations, characters, organizations, quests,
                   heroes, sessions, timeline_events, secrets, relationships, tags,
                   entity_tags, search_index, ai_messages, nextId>>

\* -------------------- arguments of the update handlers

CampaignArgs == {"name", "description", "system", "settings_json"}

CharacterArgs == {"name", "lineage", "occupation", "is_alive", "description", "personality",
                  "motivations", "secrets", "voice_notes", "stat_block_json"}

LocationArgs == {"name", "location_type", "parent_id", "description", "detail_level",
                 "gm_notes"}

OrganizationArgs == {"name", "org_type", "description", "goals", "resources", "reputation",
                     "secrets", "is_active"}

QuestArgs == {"name", "status", "plot_type", "description", "hook", "objectives",
              "complications", "resolution", "reward"}

HeroArgs == {"name", "player_id", "lineage", "classes", "description", "backstory", "goals",
             "bonds", "is_active"}

SessionArgs == {"session_number", "title", "date", "planned_content", "notes", "summary",
                "highlights"}

PlayerArgs == {"name", "preferences", "boundaries", "notes"}

TimelineArgs == {"title", "date_display", "sort_order", "description", "significance",
                 "is_public"}

SecretArgs == {"title", "content", "related_entity_type", "related_entity_id", "known_by",
               "revealed", "revealed_in_session"}

RelationshipArgs == {"relationship_type", "description", "is_bidirectional", "strength",
                     "is_public"}

\* The arguments not in `args` are absent.
WithAbsent(all, args) == [f \in all |-> IF f \in DOMAIN args THEN args[f] ELSE None]

\* The values an argument is drawn from, by its type.
ArgVals(f) ==
    CASE f \in {"is_alive", "is_active", "is_public", "is_bidirectional", "revealed"}
                                      -> {FALSE}
      [] f \in {"parent_id", "player_id", "related_entity_id"} -> {2, 3}
      [] f \in {"session_number", "sort_order", "strength", "detail_level",
                "revealed_in_session"}  -> {2}
      [] f = "date"                   -> {GoodDate, BadDate}
      [] f = "location_type"          -> {"city", "spaceport"}
      [] f = "org_type"               -> {"guild"}
      [] f \in {"status", "plot_type", "significance", "relationship_type",
                "related_entity_type"} -> {"x"}
      [] OTHER                        -> {B}

\* -------------------- SpecIndex: the six indexed tables and their triggers

SessionNumbers == {1, 12}

IndexVals(f) == IF f = "session_number" THEN SessionNumbers ELSE Texts

IndexArgs(all, projected) ==
    {WithAbsent(all, a) : a \in Supplied(projected, [f \in projected |-> IndexVals(f)], MaxSupplied)}

\* An update handler's step, counted.
Counted == nupd < MaxUpdates /\ nupd' = nupd + 1 /\ UNCHANGED <<referrers, supplied, added, stmt, calls>>

\* An update handler's step, counted, the arguments of the call kept.
CountedWith(args) == nupd < MaxUpdates /\ nupd' = nupd + 1 /\ supplied' = args
                         /\ UNCHANGED <<referrers, added, stmt, calls>>

\* The step of a call with the arguments `args`.
Called(args) == supplied' = args /\ UNCHANGED <<nupd, referrers, added, stmt, calls>>

\* A step that is no update and removes no referenced row.
Quiet == UNCHANGED <<nupd, referrers, supplied, added, stmt, calls>>

\* A delete's step: `n` rows referred to the row it removed.
Referred(n) == referrers' = n /\ UNCHANGED <<nupd, supplied, added, stmt, calls>>

IndexRoom == nextId <= MaxIndexIds

NextIndex ==
    \/ IndexRoom /\ create_campaign_impl(A, None, None) /\ Quiet
    \/ \E id \in DOMAIN campaigns : delete_campaign_impl(id) /\ Quiet
    \/ \E c \in DOMAIN campaigns, name \in {A}, description \in OptTexts :
          IndexRoom /\ create_character_impl(c, name, None, None, description) /\ Quiet
    \/ \E id \in DOMAIN characters, args \in IndexArgs(CharacterArgs, {"name", "description", "personality",
                                                         "motivations"}) :
          update_character_impl(id, args) /\ Counted
    \/ \E id \in DOMAIN characters : delete_character_impl(id) /\ Quiet
    \/ \E c \in DOMAIN campaigns, name \in {A}, parent_id \in OptKeys(locations), description \in OptTexts :
          IndexRoom /\ create_location_impl(c, name, "settlement", parent_id, description)
              /\ Quiet
    \/ \E id \in DOMAIN locations, args \in IndexArgs(LocationArgs, {"name", "description"}) :
          update_location_impl(id, args) /\ Counted
    \/ \E id \in DOMAIN locations : delete_location_impl(id) /\ Quiet
    \/ \E c \in DOMAIN campaigns, name \in {A}, description \in OptTexts :
          IndexRoom /\ create_organization_impl(c, name, "other", description, None, None)
              /\ Quiet
    \/ \E id \in DOMAIN organizations, args \in IndexArgs(OrganizationArgs, {"name", "description", "goals"}) :
          update_organization(id, args) /\ Counted
    \/ \E id \in DOMAIN organizations : delete_organization(id) /\ Quiet
    \/ \E c \in DOMAIN campaigns, name \in {A}, description \in OptTexts, hook \in OptTexts :
          IndexRoom /\ create_quest(c, name, None, description, hook) /\ Quiet
    \/ \E id \in DOMAIN quests, args \in IndexArgs(QuestArgs, {"name", "description", "hook",
                                                     "objectives"}) :
          update_quest(id, args) /\ Counted
    \/ \E id \in DOMAIN quests : delete_quest(id) /\ Quiet
    \/ \E c \in DOMAIN campaigns : IndexRoom /\ create_player(c, A, None, None) /\ Quiet
    \/ \E id \in DOMAIN players : delete_player(id) /\ Quiet
    \/ \E c \in DOMAIN campaigns, name \in {A}, player_id \in OptKeys(players), description \in OptTexts :
          IndexRoom /\ create_hero(c, name, player_id, None, None, description) /\ Quiet
    \/ \E id \in DOMAIN heroes, args \in IndexArgs(HeroArgs, {"name", "description", "backstory"}) :
          update_hero(id, args) /\ Counted
    \/ \E id \in DOMAIN heroes : delete_hero(id) /\ Quiet
    \/ \E c \in DOMAIN campaigns, n \in SessionNumbers, title \in OptTexts :
          IndexRoom /\ create_session(c, n, title, None) /\ Quiet
    \/ \E id \in DOMAIN sessions, args \in IndexArgs(SessionArgs, {"session_number", "title", "notes",
                                                       "summary"}) :
          update_session(id, args) /\ Counted
    \/ \E id \in DOMAIN sessions : delete_session(id) /\ Quiet

SpecIndex == Init /\ [][NextIndex]_vars

\* -------------------- C1, C2: the search index and its source rows

IndexedTypes == {"character", "location", "organization", "quest", "hero", "session"}

\* The table an entity_type of the index names.
IndexedRows(type) ==
    CASE type = "character"    -> characters
      [] type = "location"     -> locations
      [] type = "organization" -> organizations
      [] type = "quest"        -> quests
      [] type = "hero"         -> heroes
      [] type = "session"      -> sessions

\* C1: every live row of the six indexed tables has exactly one search_index entry,
\* carrying the row's entity_type, id and campaign_id, and no entry names a row that
\* does not exist.
C1_IndexEntryPerLiveRow ==
    /\ \A type \in IndexedTypes : \A id \in DOMAIN IndexedRows(type) :
          /\ IndexCount(search_index, type, id) = 1
          /\ \A e \in BagToSet(search_index) :
                e.entity_type = type /\ e.entity_id = id
                    => e.campaign_id = IndexedRows(type)[id].campaign_id
    /\ \A e \in BagToSet(search_index) :
          /\ e.entity_type \in IndexedTypes
          /\ e.entity_id \in DOMAIN IndexedRows(e.entity_type)

\* An update and a cascading delete have both rewritten the index of live rows.
C1_Witness ==
    /\ result.op = "delete_player" /\ result.value = TRUE
    /\ \E h \in DOMAIN heroes : heroes[h].player_id = None /\ heroes[h].description # None
    /\ nupd > 0
    /\ search_index # EmptyBag

\* The decimal text of the session numbers in use, written out.
DecimalText(n) ==
    CASE n = 1 -> <<"1">> [] n = 2 -> <<"2">> [] n = 12 -> <<"1", "2">>

OrEmpty(x) == IF x = None THEN <<>> ELSE x[1]

\* The name and content the index is to hold for a row, per entity type.
ExpectedName(type, r) ==
    IF type = "session"
    THEN (IF r.title # None THEN r.title[1]
          ELSE <<"S", "e", "s", "s", "i", "o", "n", " ">> \o DecimalText(r.session_number))
    ELSE r.name

ExpectedContent(type, r) ==
    CASE type = "character" ->
            OrEmpty(r.description) \o <<" ">> \o OrEmpty(r.personality) \o <<" ">>
                \o OrEmpty(r.motivations)
      [] type = "location" -> OrEmpty(r.description)
      [] type = "organization" -> OrEmpty(r.description) \o <<" ">> \o OrEmpty(r.goals)
      [] type = "quest" ->
            OrEmpty(r.description) \o <<" ">> \o OrEmpty(r.hook) \o <<" ">>
                \o OrEmpty(r.objectives)
      [] type = "hero" -> OrEmpty(r.description) \o <<" ">> \o OrEmpty(r.backstory)
      [] type = "session" -> OrEmpty(r.notes) \o <<" ">> \o OrEmpty(r.summary)

\* C2: the name and content of a row's index entry are the projection of the row's
\* current fields (null as the empty string, a session without title named
\* 'Session {n}'), also after an update.
C2_IndexHoldsProjection ==
    \A type \in IndexedTypes : \A id \in DOMAIN IndexedRows(type) :
        \A e \in BagToSet(search_index) :
            e.entity_type = type /\ e.entity_id = id
                => /\ e.name = ExpectedName(type, IndexedRows(type)[id])
                   /\ e.content = ExpectedContent(type, IndexedRows(type)[id])

\* An untitled session renumbered to 12, with notes, sits in the index under its
\* generated name.
C2_Witness ==
    /\ result.op = "update_session" /\ result.status = "Ok"
    /\ \E s \in DOMAIN sessions :
          /\ sessions[s].title = None
          /\ sessions[s].session_number = 12
          /\ sessions[s].notes # None
          /\ \E e \in BagToSet(search_index) :
                /\ e.entity_type = "session" /\ e.entity_id = s
                /\ e.name = <<"S", "e", "s", "s", "i", "o", "n", " ", "1", "2">>

\* The rows of the campaign-scoped tables that belong to campaign c.
ScopedTo(c) ==
    OfCampaign(players, c) \cup OfCampaign(locations, c) \cup OfCampaign(characters, c)
        \cup OfCampaign(organizations, c) \cup OfCampaign(quests, c)
        \cup OfCampaign(heroes, c) \cup OfCampaign(sessions, c)
        \cup OfCampaign(timeline_events, c) \cup OfCampaign(secrets, c)
        \cup OfCampaign(relationships, c) \cup OfCampaign(tags, c)
        \cup OfCampaign(ai_conversations, c)

\* The ids of every live row.
LiveIds ==
    DOMAIN campaigns \cup DOMAIN players \cup DOMAIN locations \cup DOMAIN characters
        \cup DOMAIN organizations \cup DOMAIN quests \cup DOMAIN heroes \cup DOMAIN sessions
        \cup DOMAIN timeline_events \cup DOMAIN secrets \cup DOMAIN relationships
        \cup DOMAIN tags \cup DOMAIN ai_conversations

\* -------------------- SpecCascade: rows of every table, campaigns deleted

\* Creation of one row of any campaign-scoped table, with small inputs.
CreateScoped(c) ==
    \/ create_player(c, A, None, None)
    \/ \E parent_id \in OptKeys(locations) :
          create_location_impl(c, A, "settlement", parent_id, None)
    \/ create_character_impl(c, A, None, None, None)
    \/ create_organization_impl(c, A, "other", None, None, None)
    \/ create_quest(c, A, None, None, None)
    \/ \E player_id \in OptKeys(players) : create_hero(c, A, player_id, None, None, None)
    \/ create_session(c, 1, None, None)
    \/ create_timeline_event(c, A, A, None, None, None)
    \/ create_secret(c, A, A, None, None)
    \/ create_relationship_impl(c, "character", 1, "character", 2, "ally", None, None, None)
    \/ create_tag_impl(c, A, None)
    \/ get_or_create_conversation_impl(c, "sidebar")

NextCascade ==
    \/ nextId <= MaxCampaigns /\ create_campaign_impl(A, None, None) /\ Quiet
    \/ \E c \in DOMAIN campaigns : CreateScoped(c) /\ Quiet
    \/ \E t \in DOMAIN tags, e \in DOMAIN characters :
          add_entity_tag_impl(t, "character", e) /\ Quiet
    \/ \E conv \in DOMAIN ai_conversations :
          /\ Len(ai_messages) < MaxMessages
          /\ add_message_impl(conv, "user", A)
          /\ Quiet
    \/ \E id \in Ids : delete_campaign_impl(id) /\ Referred(Cardinality(ScopedTo(id)))

SpecCascade == Init /\ [][NextCascade]_vars

\* -------------------- C3: delete_campaign

NoRowOf(table, c) == \A i \in DOMAIN table : table[i].campaign_id # c

\* The rows of `before` outside campaign c are still in `after`.
OthersKept(before, after, c) ==
    \A i \in DOMAIN before : before[i].campaign_id # c => i \in DOMAIN after

\* C3: after delete_campaign(C) no Player, Location, Character, Organization, Quest,
\* Hero, Session, TimelineEvent, Secret, Tag, Relationship, AiConversation or AiMessage
\* scoped to C remains, and no row of another campaign is deleted.
C3_DeleteCampaignCascades ==
    [][\A c \in Ids :
          result'.op = "delete_campaign" /\ result'.arg = c /\ c \in DOMAIN campaigns
          => /\ c \notin DOMAIN campaigns'
             /\ NoRowOf(players', c) /\ NoRowOf(locations', c) /\ NoRowOf(characters', c)
             /\ NoRowOf(organizations', c) /\ NoRowOf(quests', c) /\ NoRowOf(heroes', c)
             /\ NoRowOf(sessions', c) /\ NoRowOf(timeline_events', c)
             /\ NoRowOf(secrets', c) /\ NoRowOf(tags', c) /\ NoRowOf(relationships', c)
             /\ NoRowOf(ai_conversations', c)
             /\ \A k \in 1..Len(ai_messages') :
                   LET conv == ai_messages'[k].conversation_id
                   IN ~(conv \in DOMAIN ai_conversations
                            /\ ai_conversations[conv].campaign_id = c)
             /\ DOMAIN campaigns' = DOMAIN campaigns \ {c}
             /\ OthersKept(players, players', c) /\ OthersKept(locations, locations', c)
             /\ OthersKept(characters, characters', c)
             /\ OthersKept(organizations, organizations', c)
             /\ OthersKept(quests, quests', c) /\ OthersKept(heroes, heroes', c)
             /\ OthersKept(sessions, sessions', c)
             /\ OthersKept(timeline_events, timeline_events', c)
             /\ OthersKept(secrets, secrets', c) /\ OthersKept(tags, tags', c)
             /\ OthersKept(relationships, relationships', c)
             /\ OthersKept(ai_conversations, ai_conversations', c)
             /\ \A k \in 1..Len(ai_messages) :
                   LET conv == ai_messages[k].conversation_id
                   IN ai_conversations[conv].campaign_id # c
                         => \E j \in 1..Len(ai_messages') : ai_messages'[j] = ai_messages[k]
      ]_vars

\* A campaign with a row of its own has just been deleted; a conversation of another
\* campaign is still there with a message.
C3_Witness ==
    /\ result.op = "delete_campaign" /\ result.value = TRUE
    /\ referrers = 1
    /\ \E conv \in DOMAIN ai_conversations :
          /\ ai_conversations[conv].campaign_id \in DOMAIN campaigns
          /\ \E k \in 1..Len(ai_messages) : ai_messages[k].conversation_id = conv

\* -------------------- SpecDelete: every delete handler, on present and absent ids

DeleteRoom == nextId <= MaxDeleteIds

NextDelete ==
    \/ nextId <= MaxCampaigns /\ DeleteRoom /\ create_campaign_impl(A, None, None)
          /\ Quiet
    \/ \E c \in DOMAIN campaigns : DeleteRoom /\ CreateScoped(c) /\ Quiet
    \/ \E t \in DOMAIN tags, e \in LiveIds :
          add_entity_tag_impl(t, "character", e) /\ Quiet
    \/ \E t \in Ids, e \in LiveIds :
          remove_entity_tag_impl(t, "character", e) /\ Quiet
    \/ \E id \in Ids : delete_campaign_impl(id) /\ Quiet
    \/ \E id \in Ids : delete_player(id) /\ Quiet
    \/ \E id \in Ids : delete_location_impl(id) /\ Quiet
    \/ \E id \in Ids : delete_character_impl(id) /\ Quiet
    \/ \E id \in Ids : delete_organization(id) /\ Quiet
    \/ \E id \in Ids : delete_quest(id) /\ Quiet
    \/ \E id \in Ids : delete_hero(id) /\ Quiet
    \/ \E id \in Ids : delete_session(id) /\ Quiet
    \/ \E id \in Ids : delete_timeline_event(id) /\ Quiet
    \/ \E id \in Ids : delete_secret(id) /\ Quiet
    \/ \E id \in Ids : delete_relationship_impl(id) /\ Quiet
    \/ \E id \in Ids : delete_tag_impl(id) /\ Quiet

SpecDelete == Init /\ [][NextDelete]_vars

\* -------------------- C8: what a delete reports

\* Every table and the key counter: what a handler can change.
data == <<campaigns, players, locations, characters, organizations, quests, heroes,
          sessions, timeline_events, secrets, relationships, tags, entity_tags,
          search_index, ai_conversations, ai_messages, nextId>>

\* A step of the delete handler `op` of the table that is `before` and then `after`.
DeleteReports(op, before, after) ==
    result'.op = op
    => /\ result'.status = "Ok"
       /\ result'.value = (result'.arg \in DOMAIN before)
       /\ result'.arg \notin DOMAIN after
       /\ result'.arg \notin DOMAIN before => data' = data
       /\ result.op = op /\ result.arg = result'.arg /\ result.value = TRUE
              => result'.value = FALSE

\* C8: delete(id) returns true iff a row with that id existed, and the row is then
\* gone; on an absent id it returns false, not an error, and changes nothing; a
\* second delete of the same id returns false.
C8_DeleteReportsRemoval ==
    [][/\ DeleteReports("delete_campaign", campaigns, campaigns')
       /\ DeleteReports("delete_player", players, players')
       /\ DeleteReports("delete_location", locations, locations')
       /\ DeleteReports("delete_character", characters, characters')
       /\ DeleteReports("delete_organization", organizations, organizations')
       /\ DeleteReports("delete_quest", quests, quests')
       /\ DeleteReports("delete_hero", heroes, heroes')
       /\ DeleteReports("delete_session", sessions, sessions')
       /\ DeleteReports("delete_timeline_event", timeline_events, timeline_events')
       /\ DeleteReports("delete_secret", secrets, secrets')
       /\ DeleteReports("delete_relationship", relationships, relationships')
       /\ DeleteReports("delete_tag", tags, tags')
      ]_vars

DeleteOps == {"delete_campaign", "delete_player", "delete_location", "delete_character",
              "delete_organization", "delete_quest", "delete_hero", "delete_session",
              "delete_timeline_event", "delete_secret", "delete_relationship",
              "delete_tag"}

\* A delete has returned false for a key that was handed out and whose row is gone,
\* while other rows live on.
C8_Witness ==
    /\ result.op \in DeleteOps /\ result.status = "Ok" /\ result.value = FALSE
    /\ result.arg < nextId
    /\ result.arg \notin LiveIds
    /\ Cardinality(LiveIds) = 2

\* -------------------- SpecOrphan: rows whose parent, player or tag is deleted

ChildrenOf(id) == {i \in DOMAIN locations : locations[i].parent_id = Some(id)}

HeroesOf(id) == {i \in DOMAIN heroes : heroes[i].player_id = Some(id)}

EntityTagsOf(id) == {et \in entity_tags : et.tag_id = id}

NextOrphan ==
    \/ nextId <= MaxCampaigns /\ create_campaign_impl(A, None, None) /\ Quiet
    \/ \E c \in DOMAIN campaigns, parent_id \in OptKeys(locations), description \in OptTexts :
          create_location_impl(c, A, "settlement", parent_id, description) /\ Quiet
    \/ \E c \in DOMAIN campaigns : create_player(c, A, None, None) /\ Quiet
    \/ \E c \in DOMAIN campaigns, player_id \in OptKeys(players), lineage \in OptTexts :
          create_hero(c, A, player_id, lineage, None, None) /\ Quiet
    \/ \E c \in DOMAIN campaigns : create_character_impl(c, A, None, None, None) /\ Quiet
    \/ \E c \in DOMAIN campaigns, name \in Texts : create_tag_impl(c, name, None) /\ Quiet
    \/ \E t \in DOMAIN tags, e \in DOMAIN characters :
          add_entity_tag_impl(t, "character", e) /\ Quiet
    \/ \E id \in Ids : delete_location_impl(id) /\ Referred(Cardinality(ChildrenOf(id)))
    \/ \E id \in Ids : delete_player(id) /\ Referred(Cardinality(HeroesOf(id)))
    \/ \E id \in Ids : delete_tag_impl(id) /\ Referred(Cardinality(EntityTagsOf(id)))

SpecOrphan == Init /\ [][NextOrphan]_vars

\* The tables a step leaves as they are, apart from those listed in `changed`.
OtherTablesKept(changed) ==
    /\ "campaigns" \in changed \/ campaigns' = campaigns
    /\ "players" \in changed \/ players' = players
    /\ "locations" \in changed \/ locations' = locations
    /\ "characters" \in changed \/ characters' = characters
    /\ "organizations" \in changed \/ organizations' = organizations
    /\ "quests" \in changed \/ quests' = quests
    /\ "heroes" \in changed \/ heroes' = heroes
    /\ "sessions" \in changed \/ sessions' = sessions
    /\ "timeline_events" \in changed \/ timeline_events' = timeline_events
    /\ "secrets" \in changed \/ secrets' = secrets
    /\ "relationships" \in changed \/ relationships' = relationships
    /\ "tags" \in changed \/ tags' = tags
    /\ "entity_tags" \in changed \/ entity_tags' = entity_tags
    /\ "ai_conversations" \in changed \/ ai_conversations' = ai_conversations
    /\ "ai_messages" \in changed \/ ai_messages' = ai_messages

\* C4: delete_location(P) removes only P; the locations whose parent was P stay, with
\* parent_id null and nothing else changed.
C4_DeleteLocationOrphansChildren ==
    [][\A p \in Ids :
          result'.op = "delete_location" /\ result'.arg = p /\ p \in DOMAIN locations
          => /\ DOMAIN locations' = DOMAIN locations \ {p}
             /\ \A i \in DOMAIN locations' :
                   locations'[i] = IF locations[i].parent_id = <<p>>
                                   THEN [locations[i] EXCEPT !.parent_id = <<>>]
                                   ELSE locations[i]
             /\ OtherTablesKept({"locations"})
      ]_vars

\* A location with a child has just been deleted, and a location without parent is
\* left.
C4_Witness ==
    /\ result.op = "delete_location" /\ result.value = TRUE
    /\ referrers = 1
    /\ \E i \in DOMAIN locations : locations[i].parent_id = None /\ i > result.arg

\* C5: delete_tag(T) removes every EntityTag with tag_id = T and leaves the tagged
\* entities, the other Tags and the other EntityTags as they are.
C5_DeleteTagRemovesItsEntityTags ==
    [][\A t \in Ids :
          result'.op = "delete_tag" /\ result'.arg = t /\ t \in DOMAIN tags
          => /\ \A et \in entity_tags' : et.tag_id # t
             /\ \A et \in entity_tags : et.tag_id # t => et \in entity_tags'
             /\ entity_tags' \subseteq entity_tags
             /\ DOMAIN tags' = DOMAIN tags \ {t}
             /\ \A i \in DOMAIN tags' : tags'[i] = tags[i]
             /\ OtherTablesKept({"tags", "entity_tags"})
      ]_vars

\* A tag attached to a character has just been deleted; the character, another tag
\* and that tag's EntityTag are still there.
C5_Witness ==
    /\ result.op = "delete_tag" /\ result.value = TRUE
    /\ referrers = 1
    /\ \E et \in entity_tags :
          /\ et.tag_id \in DOMAIN tags
          /\ et.entity_type = "character" /\ et.entity_id \in DOMAIN characters

\* C6: delete_player(P) deletes no Hero; the heroes that had player_id = P stay, with
\* player_id null and their other fields unchanged.
C6_DeletePlayerUnassignsHeroes ==
    [][\A p \in Ids :
          result'.op = "delete_player" /\ result'.arg = p /\ p \in DOMAIN players
          => /\ DOMAIN heroes' = DOMAIN heroes
             /\ \A h \in DOMAIN heroes :
                   heroes'[h] = IF heroes[h].player_id = <<p>>
                                THEN [heroes[h] EXCEPT !.player_id = <<>>]
                                ELSE heroes[h]
             /\ DOMAIN players' = DOMAIN players \ {p}
             /\ OtherTablesKept({"players", "heroes"})
      ]_vars

\* A player with a hero has just been deleted, and the hero is there without player,
\* its lineage kept.
C6_Witness ==
    /\ result.op = "delete_player" /\ result.value = TRUE
    /\ referrers = 1
    /\ \E h \in DOMAIN heroes :
          heroes[h].player_id = None /\ heroes[h].lineage # None /\ h > result.arg

\* -------------------- SpecUpdate: every update handler

UpdateRoom == nextId <= MaxUpdateIds

UpdateArgs(fields) == Supplied(fields, [f \in fields |-> ArgVals(f)], MaxSupplied)

NextUpdate ==
    \/ nextId <= 1 /\ create_campaign_impl(A, None, None) /\ Quiet
    \/ \E c \in DOMAIN campaigns : UpdateRoom /\ CreateScoped(c) /\ Quiet
    \/ \E c \in DOMAIN campaigns, n \in {1, 2} :
          UpdateRoom /\ create_session(c, n, None, Some(GoodDate)) /\ Quiet
    \/ \E id \in DOMAIN campaigns, args \in UpdateArgs(CampaignArgs) :
          update_campaign_impl(id, args) /\ CountedWith(args)
    \/ \E id \in DOMAIN characters, args \in UpdateArgs(CharacterArgs) :
          update_character_impl(id, args) /\ CountedWith(args)
    \/ \E id \in DOMAIN locations, args \in UpdateArgs(LocationArgs) :
          update_location_impl(id, args) /\ CountedWith(args)
    \/ \E id \in DOMAIN organizations, args \in UpdateArgs(OrganizationArgs) :
          update_organization(id, args) /\ CountedWith(args)
    \/ \E id \in DOMAIN quests, args \in UpdateArgs(QuestArgs) :
          update_quest(id, args) /\ CountedWith(args)
    \/ \E id \in DOMAIN heroes, args \in UpdateArgs(HeroArgs) :
          update_hero(id, args) /\ CountedWith(args)
    \/ \E id \in DOMAIN sessions, args \in UpdateArgs(SessionArgs) :
          update_session(id, args) /\ CountedWith(args)
    \/ \E id \in DOMAIN players, args \in UpdateArgs(PlayerArgs) :
          update_player(id, args) /\ CountedWith(args)
    \/ \E id \in DOMAIN timeline_events, args \in UpdateArgs(TimelineArgs) :
          update_timeline_event(id, args) /\ CountedWith(args)
    \/ \E id \in DOMAIN secrets, args \in UpdateArgs(SecretArgs) :
          update_secret(id, args) /\ CountedWith(args)
    \/ \E id \in DOMAIN relationships, args \in UpdateArgs(RelationshipArgs) :
          update_relationship_impl(id, args) /\ CountedWith(args)

SpecUpdate == Init /\ [][NextUpdate]_vars

\* -------------------- C7: what an update changes

\* The value a column holds once `v` was supplied for it: a nullable column wraps
\* it, and a session's date is the supplied text read as a date, null when it is none.
Stores(f, v, nullable) ==
    IF f = "date" THEN (IF v = "2025-01-31" THEN <<v>> ELSE <<>>)
    ELSE IF f \in nullable THEN <<v>> ELSE v

\* A successful step of the update handler `op` of the table `name`, which is
\* `before` and then `after`.
UpdateFrames(op, name, before, after, nullable) ==
    result'.op = op /\ result'.status = "Ok"
    => LET id == result'.arg
       IN /\ DOMAIN after = DOMAIN before
          /\ \A j \in DOMAIN before \ {id} : after[j] = before[j]
          /\ \A f \in DOMAIN before[id] :
                IF f \in DOMAIN supplied' /\ supplied'[f] # <<>>
                THEN after[id][f] = Stores(f, supplied'[f][1], nullable)
                ELSE after[id][f] = before[id][f]
          /\ OtherTablesKept({name})

\* C7: for every entity kind, an update with every optional argument absent changes
\* no stored field of the row, and an update that supplies some arguments changes
\* exactly the corresponding fields and leaves every other field of the row and
\* every other row unchanged.
C7_UpdateChangesSuppliedFieldsOnly ==
    [][/\ UpdateFrames("update_campaign", "campaigns", campaigns, campaigns',
                       CampaignNullable)
       /\ UpdateFrames("update_character", "characters", characters, characters',
                       CharacterNullable)
       /\ UpdateFrames("update_location", "locations", locations, locations',
                       LocationNullable)
       /\ UpdateFrames("update_organization", "organizations", organizations,
                       organizations', OrganizationNullable)
       /\ UpdateFrames("update_quest", "quests", quests, quests', QuestNullable)
       /\ UpdateFrames("update_hero", "heroes", heroes, heroes', HeroNullable)
       /\ UpdateFrames("update_session", "sessions", sessions, sessions',
                       SessionNullable \cup {"date"})
       /\ UpdateFrames("update_player", "players", players, players', PlayerNullable)
       /\ UpdateFrames("update_timeline_event", "timeline_events", timeline_events,
                       timeline_events', TimelineNullable)
       /\ UpdateFrames("update_secret", "secrets", secrets, secrets', SecretNullable)
       /\ UpdateFrames("update_relationship", "relationships", relationships,
                       relationships', RelationshipNullable)
      ]_vars

\* A character was given a personality by one update and then updated with every
\* argument absent; a second character was never touched.
C7_Witness ==
    /\ result.op = "update_character" /\ result.status = "Ok"
    /\ nupd = 2
    /\ supplied = AllAbsent(CharacterArgs)
    /\ characters[result.arg].personality # None
    /\ \E other \in DOMAIN characters : other # result.arg

\* -------------------- SpecSearch: search over indexed rows of two campaigns

RECURSIVE Strings(_, _)
Strings(alphabet, n) ==
    IF n = 0 THEN {<<>>}
    ELSE LET shorter == Strings(alphabet, n - 1)
         IN shorter \cup {Append(s, ch) : s \in shorter, ch \in alphabet}

Queries == Strings({"a", "b", " ", "\t", "\""}, MaxQueryLen)

NextSearch ==
    \/ nextId <= MaxCampaigns /\ create_campaign_impl(A, None, None) /\ Quiet
    \/ \E c \in DOMAIN campaigns, description \in {None, Some(B)} :
          create_character_impl(c, A, None, None, description) /\ Quiet
    \/ \E c \in DOMAIN campaigns : create_session(c, 1, Some(B), None) /\ Quiet
    \/ \E id \in DOMAIN characters : delete_character_impl(id) /\ Quiet
    \/ \E c \in DOMAIN campaigns, query \in Queries, limit \in {None, Some(U64(1))} :
          search_entities_impl(c, query, None, limit) /\ Called(<<query, limit>>)

SpecSearch == Init /\ [][NextSearch]_vars

\* C9: every result of search_entities(C, query) is an index entry whose campaign_id
\* equals C; an entity of another campaign is never returned, even when its name and
\* content are those of a matching entity of C.
C9_SearchStaysInCampaign ==
    result.op = "search_entities" /\ result.status = "Ok"
    => \A r \in result.value :
          /\ \E e \in BagToSet(search_index) :
                /\ e.entity_type = r.entity_type /\ e.entity_id = r.entity_id
                /\ e.campaign_id = result.arg
          /\ \A e \in BagToSet(search_index) :
                e.entity_type = r.entity_type /\ e.entity_id = r.entity_id
                    => e.campaign_id = result.arg
          /\ IndexedRows(r.entity_type)[r.entity_id].campaign_id = result.arg

\* Two campaigns hold characters of the same name and description; a search in one
\* of them has returned its character alone.
C9_Witness ==
    /\ result.op = "search_entities" /\ result.status = "Ok"
    /\ Cardinality(result.value) = 1
    /\ \E x \in DOMAIN characters, y \in DOMAIN characters :
          /\ characters[x].campaign_id = result.arg
          /\ characters[y].campaign_id # result.arg
          /\ characters[x].name = characters[y].name
          /\ characters[x].description = characters[y].description
          /\ characters[x].description # None
          /\ \E r \in result.value : r.entity_type = "character" /\ r.entity_id = x

\* The text is empty or holds whitespace only.
Blank(text) == \A i \in 1..Len(text) : IsWhitespace(text[i])

\* C15: search_entities with an empty or all-whitespace query fails with a Database
\* error, never answers with a successful (empty) result list, and leaves the store
\* as it was.
C15_BlankQueryIsDatabaseError ==
    [][result'.op = "search_entities" /\ Blank(supplied'[1]) =>
          /\ result'.status = "Database"
          /\ result'.value = None
          /\ data' = data
      ]_vars

\* A search for a space and a tab has failed in a campaign that has an indexed
\* character.
C15_Witness ==
    /\ result.op = "search_entities" /\ result.status = "Database"
    /\ supplied[1] = <<" ", "\t">>
    /\ \E e \in BagToSet(search_index) : e.campaign_id = result.arg

\* -------------------- SpecAi: conversations and their messages

NextAi ==
    \/ nextId <= 1 /\ create_campaign_impl(A, None, None) /\ Quiet
    \/ \E c \in DOMAIN campaigns, context_type \in {"sidebar", "fullpage"} :
          get_or_create_conversation_impl(c, context_type) /\ Quiet
    \/ \E conv \in Ids, content \in Texts :
          /\ Len(ai_messages) < MaxMessages
          /\ add_message_impl(conv, "user", content)
          /\ Quiet
    \/ \E conv \in Ids : clear_conversation_impl(conv) /\ Quiet
    \/ \E id \in DOMAIN campaigns : delete_campaign_impl(id) /\ Quiet

SpecAi == Init /\ [][NextAi]_vars

\* The messages of a conversation in the order they were added.
AddedTo(conv) == SelectSeq(ai_messages, LAMBDA m : m.conversation_id = conv)

MaxTokenUpdates == 2

\* Messages stored at a time in a behaviour of SpecTokens.
MaxTokenMessages == 2

\* The (input, output, cache_read, cache_creation) deltas of an update call.
TokenDeltas == {<<100, 50, 25, 10>>, <<200, 100, 50, 20>>, <<I32Max, 0, -1, I32Min>>}

\* The step of update_token_counts: a successful call's deltas are added to the sums
\* of the conversation.
Tallied(conv, deltas) ==
    /\ nupd < MaxTokenUpdates
    /\ nupd' = nupd + 1
    /\ added' = IF result'.status = "Ok"
                THEN [added EXCEPT ![conv] = [k \in 1..4 |-> BigAdd(@[k], Big(deltas[k]))]]
                ELSE added
    /\ supplied' = deltas
    /\ UNCHANGED <<referrers, stmt, calls>>

\* The step of clear_conversation: the sums of the conversation start again; the
\* totals the conversation had are kept.
Restarted(conv) ==
    /\ added' = [added EXCEPT ![conv] = NoTokens]
    /\ supplied' = IF conv \in DOMAIN ai_conversations
                   THEN Some(Totals(ai_conversations[conv])) ELSE None
    /\ UNCHANGED <<nupd, referrers, stmt, calls>>

NextTokens ==
    \/ nextId <= MaxCampaigns /\ create_campaign_impl(A, None, None) /\ Quiet
    \/ \E c \in DOMAIN campaigns, context_type \in {"sidebar", "fullpage"} :
          /\ get_or_create_conversation_impl(c, context_type)
          /\ Called(<<c, context_type>>)
    \/ \E conv \in Ids, deltas \in TokenDeltas :
          update_token_counts_impl(conv, deltas) /\ Tallied(conv, deltas)
    \/ \E conv \in Ids :
          /\ Len(ai_messages) < MaxTokenMessages
          /\ add_message_impl(conv, "user", A)
          /\ Quiet
    \/ \E conv \in Ids : clear_conversation_impl(conv) /\ Restarted(conv)
    \/ \E id \in DOMAIN campaigns : delete_campaign_impl(id) /\ Quiet

SpecTokens == Init /\ [][NextTokens]_vars

MessagesOfOthers(ms, conv) == SelectSeq(ms, LAMBDA m : m.conversation_id # conv)

ConversationsOf(convs, c, t) ==
    {i \in DOMAIN convs : convs[i].campaign_id = c /\ convs[i].context_type = t}

\* A conversation row nothing has been added to.
FreshConversation(c, t) ==
    [campaign_id |-> c, context_type |-> t, total_input_tokens |-> 0,
     total_output_tokens |-> 0, total_cache_read_tokens |-> 0,
     total_cache_creation_tokens |-> 0]

MaxFtsLen == 4

FtsInputs == Strings({"a", "b", " ", "\t", "\""}, MaxFtsLen)

\* An empty store and an input string.
InitFts ==
    /\ campaigns = EmptyTable /\ players = EmptyTable /\ locations = EmptyTable
    /\ characters = EmptyTable /\ organizations = EmptyTable /\ quests = EmptyTable
    /\ heroes = EmptyTable /\ sessions = EmptyTable /\ timeline_events = EmptyTable
    /\ secrets = EmptyTable /\ relationships = EmptyTable /\ tags = EmptyTable
    /\ entity_tags = {} /\ search_index = EmptyBag
    /\ ai_conversations = EmptyTable /\ ai_messages = <<>>
    /\ nextId = 1 /\ nupd = 0 /\ referrers = 0
    /\ added = [i \in Ids |-> NoTokens]
    /\ stmt = None
    /\ calls = NoCalls
    /\ supplied \in FtsInputs
    /\ result = Ok("init", None, None)

BuildFtsQuery ==
    /\ result' = Ok("build_fts_query", supplied, build_fts_query(supplied))
    /\ UNCHANGED <<data, nupd, referrers, supplied, added, stmt, calls>>

NextFts == BuildFtsQuery

SpecFts == InitFts /\ [][NextFts]_vars

\* The positions of s where a whitespace-separated token starts, and where the token
\* that starts at i ends.
TokenStarts(s) ==
    {i \in 1..Len(s) : ~IsWhitespace(s[i]) /\ (i = 1 \/ IsWhitespace(s[i - 1]))}

TokenEnd(s, i) ==
    CHOOSE j \in i..Len(s) :
        /\ \A k \in i..j : ~IsWhitespace(s[k])
        /\ j = Len(s) \/ IsWhitespace(s[j + 1])

\* The tokens from the positions `starts` on, left to right: each without its double
\* quotes and with a '*' appended, one space between two of them.
RECURSIVE StarredTokens(_, _)
StarredTokens(s, starts) ==
    IF starts = {} THEN <<>>
    ELSE LET i == CHOOSE x \in starts : \A y \in starts : x <= y
             token == SubSeq(s, i, TokenEnd(s, i))
             starred == SelectSeq(token, LAMBDA ch : ch # "\"") \o <<"*">>
         IN IF starts = {i} THEN starred
            ELSE starred \o <<" ">> \o StarredTokens(s, starts \ {i})

\* C14: build_fts_query returns the whitespace-separated tokens of its input in
\* their order, each with every double quote removed and a '*' appended, joined by
\* exactly one space; an empty or all-whitespace input gives the empty string.
C14_BuildFtsQueryStarsTokens ==
    result.op = "build_fts_query" =>
        /\ result.value = StarredTokens(result.arg, TokenStarts(result.arg))
        /\ (\A i \in 1..Len(result.arg) : IsWhitespace(result.arg[i])) => result.value = <<>>

\* The input of a lone double quote, a space, a tab and `b`: the first token is left
\* with its '*' alone, the run of two whitespace characters gives one separator.
C14_Witness ==
    /\ result.op = "build_fts_query"
    /\ result.arg = <<"\"", " ", "\t", "b">>
    /\ result.value = <<"*", " ", "b", "*">>

\* -------------------- SpecLimit: search over more rows than the default limit

\* Characters of the one campaign of SpecLimit.
MaxSeeded == 51

SeededIds == 2..(MaxSeeded + 1)

\* The row create_character(1, "a", None, None, None) writes.
SeededCharacter ==
    [campaign_id |-> 1, name |-> A, lineage |-> None, occupation |-> None,
     is_alive |-> TRUE, description |-> None, personality |-> None, motivations |-> None,
     secrets |-> None, voice_notes |-> None, stat_block_json |-> None]

\* The index after characters_ai has fired for the first n of them.
RECURSIVE SeededIndex(_)
SeededIndex(n) ==
    IF n = 0 THEN EmptyBag
    ELSE characters_ai(SeededIndex(n - 1), n + 1, SeededCharacter)

\* The store after create_campaign and MaxSeeded calls of create_character.
InitLimit ==
    /\ campaigns = Insert(EmptyTable, 1, [name |-> A, description |-> None,
                                          system |-> None, settings_json |-> None])
    /\ characters = [i \in SeededIds |-> SeededCharacter]
    /\ search_index = SeededIndex(MaxSeeded)
    /\ players = EmptyTable /\ locations = EmptyTable /\ organizations = EmptyTable
    /\ quests = EmptyTable /\ heroes = EmptyTable /\ sessions = EmptyTable
    /\ timeline_events = EmptyTable /\ secrets = EmptyTable
    /\ relationships = EmptyTable /\ tags = EmptyTable /\ entity_tags = {}
    /\ ai_conversations = EmptyTable /\ ai_messages = <<>>
    /\ nextId = MaxSeeded + 2 /\ nupd = 0 /\ referrers = 0
    /\ added = [i \in Ids |-> NoTokens]
    /\ stmt = None
    /\ calls = NoCalls
    /\ supplied = None
    /\ result = Ok("init", None, None)

\* Some(limit) for 0, 1, 2^63 and u64::MAX, and no limit supplied.
Limits == {None, Some(U64(0)), Some(U64(1)), Some(<<Word \div 2, 0, 0, 0>>), Some(U64Max)}

NextLimit ==
    \/ \E query \in {A, B}, limit \in Limits :
          search_entities_impl(1, query, None, limit) /\ Called(<<query, limit>>)
    \/ \E id \in DOMAIN characters :
          /\ \A other \in DOMAIN characters : other <= id
          /\ delete_character_impl(id)
          /\ Quiet

SpecLimit == InitLimit /\ [][NextLimit]_vars

\* n <= u, for a count n below 2^16 and a u64 u.
AtMost(n, u) == u[1] > 0 \/ u[2] > 0 \/ u[3] > 0 \/ n <= u[4]

\* C16: search_entities returns at most `limit` results, at most 50 when no limit is
\* supplied, and exactly that many when more entries match.
C16_ResultsWithinLimit ==
    result.op = "search_entities" /\ result.status = "Ok" =>
        LET returned == Cardinality(result.value)
            matching == Cardinality(Matched(search_index, result.arg,
                                            build_fts_query(supplied[1])))
            limit == IF supplied[2] = None THEN <<0, 0, 0, 50>> ELSE supplied[2][1]
        IN /\ AtMost(returned, limit)
           /\ returned <= matching
           /\ ~AtMost(matching, limit) => <<0, 0, 0, returned>> = limit

\* No limit was supplied, 51 characters match and 50 results came back.
C16_Witness ==
    /\ result.op = "search_entities" /\ result.status = "Ok"
    /\ supplied[2] = None
    /\ Cardinality(Matched(search_index, 1, build_fts_query(supplied[1]))) = 51
    /\ Cardinality(result.value) = 50

\* -------------------- SpecAtomic: the steps inside one statement on characters

\* The tables other than characters, and the id counter.
others == <<campaigns, players, locations, organizations, quests, heroes, sessions,
            timeline_events, secrets, relationships, tags, entity_tags,
            ai_conversations, ai_messages>>

\* model.insert(db) / active.update(db) / delete_by_id(id).exec(db) sends one
\* statement; SQLite runs it and the triggers it fires in one implicit transaction,
\* on pages no reader sees before the commit.
BeginStatement(kind, id, new) ==
    /\ stmt = None
    /\ stmt' = Some([kind |-> kind, id |-> id, new |-> new, pc |-> "row",
                     characters |-> characters, search_index |-> search_index])
    /\ UNCHANGED <<characters, search_index, others, result>>

insert_character_begins(campaign_id, name, description) ==
    /\ CanAllocate
    /\ campaign_id \in DOMAIN campaigns
    /\ BeginStatement("create_character", nextId,
                      [campaign_id |-> campaign_id, name |-> name, lineage |-> None,
                       occupation |-> None, is_alive |-> TRUE,
                       description |-> description, personality |-> None,
                       motivations |-> None, secrets |-> None, voice_notes |-> None,
                       stat_block_json |-> None])
    /\ nextId' = nextId + 1

update_character_begins(id, args) ==
    /\ id \in DOMAIN characters
    /\ BeginStatement("update_character", id, Patch(characters[id], args, CharacterNullable))
    /\ UNCHANGED nextId

delete_character_begins(id) ==
    /\ id \in DOMAIN characters
    /\ BeginStatement("delete_character", id, None)
    /\ UNCHANGED nextId

\* The next step of the statement in flight, on its uncommitted pages.
Advance(s) ==
    /\ stmt' = Some(s)
    /\ UNCHANGED <<characters, search_index, others, nextId, result>>

\* The row write is committed by itself, before the trigger runs.
RowStepAutocommit ==
    /\ stmt # None /\ stmt[1].pc = "row"
    /\ LET s == stmt[1]
           written == CASE s.kind = "create_character" -> Insert(s.characters, s.id, s.new)
                        [] s.kind = "update_character" -> [s.characters EXCEPT ![s.id] = s.new]
                        [] s.kind = "delete_character" -> DeleteKeys(s.characters, {s.id})
       IN /\ stmt' = Some([s EXCEPT !.characters = written,
                                    !.pc = IF s.kind = "create_character"
                                           THEN "trigger_insert" ELSE "trigger_delete"])
          /\ characters' = written
          /\ UNCHANGED <<search_index, others, nextId, result>>

\* INSERT INTO / UPDATE / DELETE FROM characters: the row write.
RowStep ==
    /\ stmt # None /\ stmt[1].pc = "row"
    /\ LET s == stmt[1]
           written == CASE s.kind = "create_character" -> Insert(s.characters, s.id, s.new)
                        [] s.kind = "update_character" -> [s.characters EXCEPT ![s.id] = s.new]
                        [] s.kind = "delete_character" -> DeleteKeys(s.characters, {s.id})
       IN Advance([s EXCEPT !.characters = written,
                            !.pc = IF s.kind = "create_character"
                                   THEN "trigger_insert" ELSE "trigger_delete"])

\* characters_au / characters_ad: DELETE FROM search_index WHERE ... entity_id = OLD.id
TriggerDeleteStep ==
    /\ stmt # None /\ stmt[1].pc = "trigger_delete"
    /\ LET s == stmt[1]
       IN Advance([s EXCEPT !.search_index = IndexDelete(s.search_index, "character", s.id),
                            !.pc = IF s.kind = "update_character"
                                   THEN "trigger_insert" ELSE "commit"])

\* characters_ai / characters_au: INSERT INTO search_index ... VALUES ('character', NEW.id, ...)
TriggerInsertStep ==
    /\ stmt # None /\ stmt[1].pc = "trigger_insert"
    /\ LET s == stmt[1]
           e == Entry("character", s.id, s.new.campaign_id, s.new.name,
                      CharacterContent(s.new))
       IN Advance([s EXCEPT !.search_index = IndexInsert(s.search_index, e),
                            !.pc = "commit"])

\* The statement ends: its pages become the committed ones.
CommitStep ==
    /\ stmt # None /\ stmt[1].pc = "commit"
    /\ characters' = stmt[1].characters
    /\ search_index' = stmt[1].search_index
    /\ stmt' = None
    /\ result' = Ok(stmt[1].kind, stmt[1].id, stmt[1].new)
    /\ UNCHANGED <<others, nextId>>

\* The process stops or the statement fails before the commit: the journal rolls
\* the uncommitted pages back.
CrashStep ==
    /\ stmt # None
    /\ stmt' = None
    /\ result' = Err(stmt[1].kind, stmt[1].id, "Crash")
    /\ UNCHANGED <<characters, search_index, others, nextId>>

\* A step that leaves the history variables alone.
Untracked == UNCHANGED <<nupd, referrers, supplied, added, calls>>

NextAtomic ==
    \/ nextId <= 1 /\ stmt = None /\ create_campaign_impl(A, None, None) /\ Quiet
    \/ \E c \in DOMAIN campaigns, name \in Texts, description \in {None, Some(B)} :
          IndexRoom /\ insert_character_begins(c, name, description) /\ Untracked
    \/ \E id \in DOMAIN characters,
          args \in IndexArgs(CharacterArgs, {"name", "description", "lineage"}) :
          update_character_begins(id, args) /\ Untracked
    \/ \E id \in DOMAIN characters : delete_character_begins(id) /\ Untracked
    \/ RowStep /\ Untracked
    \/ TriggerDeleteStep /\ Untracked
    \/ TriggerInsertStep /\ Untracked
    \/ CommitStep /\ Untracked
    \/ CrashStep /\ Untracked

SpecAtomic == Init /\ [][NextAtomic]_vars

\* C17: in every state a reader or a restart after a failure can see (the committed
\* one, also while a statement is in flight), each character has exactly one index
\* entry, that entry is the projection of the row as it now is, and there is no
\* entry of a character that is not stored: the row change and the index change of
\* an insert, an update or a delete become visible together or not at all.
C17_IndexChangeIsAtomicWithRowChange ==
    /\ \A id \in DOMAIN characters :
          /\ IndexCount(search_index, "character", id) = 1
          /\ \E e \in BagToSet(search_index) :
                /\ e.entity_type = "character" /\ e.entity_id = id
                /\ e.campaign_id = characters[id].campaign_id
                /\ e.name = ExpectedName("character", characters[id])
                /\ e.content = ExpectedContent("character", characters[id])
    /\ \A e \in BagToSet(search_index) :
          e.entity_type = "character" => e.entity_id \in DOMAIN characters

\* An update is in flight between the trigger's DELETE and its INSERT: on its
\* uncommitted pages the row has its new values and no index entry, while the
\* committed row and entry are the old ones.
C17_Witness ==
    /\ stmt # None
    /\ stmt[1].kind = "update_character" /\ stmt[1].pc = "trigger_insert"
    /\ stmt[1].characters[stmt[1].id].name # characters[stmt[1].id].name
    /\ IndexCount(stmt[1].search_index, "character", stmt[1].id) = 0
    /\ IndexCount(search_index, "character", stmt[1].id) = 1

\* -------------------- SpecAssoc: relationships and entity tags of deleted rows

\* The (entity_type, entity_id) pairs of the live rows a relationship or an entity
\* tag can point at.
LiveEntities ==
    {<<"player", i>> : i \in DOMAIN players} \cup {<<"location", i>> : i \in DOMAIN locations}
        \cup {<<"character", i>> : i \in DOMAIN characters}
        \cup {<<"organization", i>> : i \in DOMAIN organizations}
        \cup {<<"quest", i>> : i \in DOMAIN quests} \cup {<<"hero", i>> : i \in DOMAIN heroes}
        \cup {<<"session", i>> : i \in DOMAIN sessions}
        \cup {<<"timeline_event", i>> : i \in DOMAIN timeline_events}
        \cup {<<"secret", i>> : i \in DOMAIN secrets}
        \cup {<<"campaign", i>> : i \in DOMAIN campaigns} \cup {<<"tag", i>> : i \in DOMAIN tags}

\* The relationships and entity tags that point at the entity.
PointingAt(type, id) ==
    Cardinality(get_entity_relationships_impl(type, id))
        + Cardinality({et \in entity_tags : et.entity_type = type /\ et.entity_id = id})

\* The delete of a row of the given type.
DeleteOf(type, id) ==
    CASE type = "campaign"       -> delete_campaign_impl(id)
      [] type = "player"         -> delete_player(id)
      [] type = "location"       -> delete_location_impl(id)
      [] type = "character"      -> delete_character_impl(id)
      [] type = "organization"   -> delete_organization(id)
      [] type = "quest"          -> delete_quest(id)
      [] type = "hero"           -> delete_hero(id)
      [] type = "session"        -> delete_session(id)
      [] type = "timeline_event" -> delete_timeline_event(id)
      [] type = "secret"         -> delete_secret(id)
      [] type = "tag"            -> delete_tag_impl(id)

NextAssoc ==
    \/ nextId <= 1 /\ create_campaign_impl(A, None, None) /\ Quiet
    \/ \E c \in DOMAIN campaigns : CreateScoped(c) /\ Quiet
    \/ \E c \in DOMAIN campaigns, s \in LiveEntities, t \in LiveEntities :
          /\ create_relationship_impl(c, s[1], s[2], t[1], t[2], "ally", None, None, None)
          /\ Quiet
    \/ \E t \in DOMAIN tags, e \in LiveEntities :
          add_entity_tag_impl(t, e[1], e[2]) /\ Quiet
    \/ \E e \in LiveEntities : DeleteOf(e[1], e[2]) /\ Referred(PointingAt(e[1], e[2]))
    \/ \E id \in DOMAIN relationships : delete_relationship_impl(id) /\ Quiet

SpecAssoc == Init /\ [][NextAssoc]_vars

\* A step of the delete handler `op` of the rows of type `type` leaves every
\* relationship and entity tag in place, those of the deleted row included.
KeepsAssociations(op, type) ==
    \A id \in Ids :
        result'.op = op /\ result'.arg = id =>
            /\ relationships' = relationships
            /\ entity_tags' = entity_tags
            /\ get_entity_relationships_impl(type, id)'
                  = get_entity_relationships_impl(type, id)
            /\ get_entity_tags_impl(type, id)' = get_entity_tags_impl(type, id)

\* The delete handlers of the entity kinds that no foreign key of relationships, tags
\* or entity_tags leads to.
KeepAssociationsOfUntypedKinds ==
    /\ KeepsAssociations("delete_player", "player")
    /\ KeepsAssociations("delete_location", "location")
    /\ KeepsAssociations("delete_character", "character")
    /\ KeepsAssociations("delete_organization", "organization")
    /\ KeepsAssociations("delete_quest", "quest")
    /\ KeepsAssociations("delete_hero", "hero")
    /\ KeepsAssociations("delete_session", "session")
    /\ KeepsAssociations("delete_timeline_event", "timeline_event")
    /\ KeepsAssociations("delete_secret", "secret")

\* C18 as stated: the delete operation of a Character, Location, Organization, Quest,
\* Hero or any other entity kind (Campaign and Tag among them) changes no
\* Relationship row and no EntityTag row, and the associations of the deleted row
\* are still returned by get_entity_relationships and get_entity_tags.
C18_NoDeleteTouchesAssociations ==
    [][/\ KeepAssociationsOfUntypedKinds
       /\ KeepsAssociations("delete_campaign", "campaign")
       /\ KeepsAssociations("delete_tag", "tag")
      ]_vars

\* C18, amended: the delete operation of a Player, Location, Character, Organization,
\* Quest, Hero, Session, TimelineEvent or Secret changes no Relationship row and no
\* EntityTag row; the associations whose source, target or tagged entity is the
\* deleted row stay stored and are still returned by get_entity_relationships and
\* get_entity_tags for that (type, id) pair.
C18_EntityDeleteKeepsAssociations == [][KeepAssociationsOfUntypedKinds]_vars

\* A row that a relationship and an entity tag pointed at has been deleted; the
\* relationship and the tag are still returned for its (type, id) pair.
C18_Witness ==
    /\ result.op \in DeleteOps \ {"delete_campaign", "delete_tag", "delete_relationship"}
    /\ result.value = TRUE
    /\ referrers = 2
    /\ result.arg \notin LiveIds
    /\ \E type \in {"player", "location", "character", "organization", "quest", "hero",
                    "session", "timeline_event", "secret"} :
          /\ "delete_" \o type = result.op
          /\ get_entity_relationships_impl(type, result.arg) # {}
          /\ get_entity_tags_impl(type, result.arg) # {}

\* -------------------- SpecTags: tag names of two campaigns

\* The names "a", "A" and "b".
TagNames == {A, <<"A">>, B}

NextTags ==
    \/ nextId <= MaxCampaigns /\ create_campaign_impl(A, None, None) /\ Quiet
    \/ \E c \in DOMAIN campaigns, name \in TagNames :
          create_tag_impl(c, name, None) /\ Called(<<c, name>>)
    \/ \E id \in DOMAIN tags : delete_tag_impl(id) /\ Quiet

SpecTags == Init /\ [][NextTags]_vars

\* C19: no two tags of one campaign have the same name, compared character by
\* character; create_tag with a name a tag of the campaign has fails with a Database
\* error and adds no row; with any other name (the name of a tag of another
\* campaign, or one that differs in letter case only) it adds the tag.
C19_TagNameUniquePerCampaign ==
    /\ [](\A i, j \in DOMAIN tags :
             tags[i].campaign_id = tags[j].campaign_id /\ tags[i].name = tags[j].name
             => i = j)
    /\ [][result'.op = "create_tag" =>
             LET c == supplied'[1]
                 name == supplied'[2]
                 taken == \E j \in DOMAIN tags :
                             tags[j].campaign_id = c /\ tags[j].name = name
             IN IF taken
                THEN result'.status = "Database" /\ data' = data
                ELSE /\ result'.status = "Ok"
                     /\ result'.arg \notin DOMAIN tags
                     /\ tags' = Insert(tags, result'.arg,
                                       [campaign_id |-> c, name |-> name, color |-> None])
         ]_vars

\* A campaign has the tags "a" and "A"; a further create_tag with one of the two
\* names has failed.
C19_Witness ==
    /\ result.op = "create_tag" /\ result.status = "Database"
    /\ \E i, j \in DOMAIN tags :
          /\ tags[i].campaign_id = tags[j].campaign_id
          /\ tags[i].name = A /\ tags[j].name = <<"A">>
          /\ supplied[1] = tags[i].campaign_id
          /\ supplied[2] \in {A, <<"A">>}

\* -------------------- SpecValidate: create_location with valid and invalid input

\* The name of n characters "a".
Long(n) == [i \in 1..n |-> "a"]

\* The empty name, names of 1, 200 and 201 characters.
LocationNames == {<<>>, A, Long(200), Long(201)}

\* Two values of the enumeration, one outside it and the empty string.
LocationTypeInputs == {"settlement", "room", "spaceport", ""}

NextValidate ==
    \/ nextId <= 1 /\ create_campaign_impl(A, None, None) /\ Quiet
    \/ \E c \in 1..2, name \in LocationNames, location_type \in LocationTypeInputs,
          parent_id \in OptKeys(locations) :
          /\ nextId > 1
          /\ create_location_impl(c, name, location_type, parent_id, None)
          /\ Called(<<name, location_type>>)
    \/ \E id \in DOMAIN locations : delete_location_impl(id) /\ Quiet

SpecValidate == Init /\ [][NextValidate]_vars

\* C20: create_location with an empty name, a name of more than 200 characters or a
\* location_type outside the enumeration returns a Validation error and writes
\* nothing: no Location row, no search index entry, the store as it was.
C20_InvalidLocationIsRejectedBeforeAnyWrite ==
    [][/\ result'.op = "create_location"
       /\ \/ Len(supplied'[1]) = 0
          \/ Len(supplied'[1]) > 200
          \/ supplied'[2] \notin {"world", "continent", "region", "territory", "settlement",
                                  "district", "building", "room", "landmark", "wilderness"}
       => /\ result'.status = "Validation"
          /\ locations' = locations
          /\ search_index' = search_index
          /\ data' = data
      ]_vars

\* A location with a name of 200 characters is stored and indexed; a create_location
\* with a name of 201 characters and a valid type has been rejected.
C20_Witness ==
    /\ result.op = "create_location" /\ result.status = "Validation"
    /\ Len(supplied[1]) = 201 /\ supplied[2] = "room"
    /\ \E i \in DOMAIN locations :
          /\ Len(locations[i].name) = 200
          /\ IndexCount(search_index, "location", i) = 1

\* -------------------- SpecCharacter: create_character with empty and non-empty names

CharacterNames == {<<>>, A, Long(200)}

NextCharacter ==
    \/ nextId <= 1 /\ create_campaign_impl(A, None, None) /\ Quiet
    \/ \E c \in 1..2, name \in CharacterNames, description \in OptTexts :
          /\ nextId > 1
          /\ create_character_impl(c, name, None, None, description)
          /\ Called(<<name>>)
    \/ \E id \in DOMAIN characters : delete_character_impl(id) /\ Quiet

SpecCharacter == Init /\ [][NextCharacter]_vars

\* C21: create_character with an empty name returns a Validation error and creates
\* no Character row and no search index entry.
C21_EmptyCharacterNameIsRejected ==
    [][result'.op = "create_character" /\ Len(supplied'[1]) = 0
       => /\ result'.status = "Validation"
          /\ characters' = characters
          /\ search_index' = search_index
      ]_vars

\* -------------------- SpecSearch: the snippet of a result

\* C22: the snippet of each search result is an excerpt of the content field of the
\* matching index entry (not of its name or another column), with the tokens that
\* match a term of the query marked.
C22_SnippetIsExcerptOfContent ==
    result.op = "search_entities" /\ result.status = "Ok"
    => \A r \in result.value :
          \E e \in BagToSet(search_index) :
             /\ e.entity_type = r.entity_type /\ e.entity_id = r.entity_id
             /\ r.snippet = Highlight(e.content, <<>>,
                                      QueryTerms(build_fts_query(supplied[1])))

\* -------------------- SpecFilter: search_entities with entity_types lists

\* No list, the empty list, the types of the stored entries and a type none has.
EntityTypeFilters ==
    {None, Some(<<>>), Some(<<"character">>), Some(<<"session">>), Some(<<"location">>),
     Some(<<"character", "session">>)}

FilterQueries == {A, B, <<"s">>, <<"a", " ", "b">>, <<>>}

NextFilter ==
    \/ nextId <= 1 /\ create_campaign_impl(A, None, None) /\ Quiet
    \/ \E c \in DOMAIN campaigns, description \in {None, Some(B)} :
          create_character_impl(c, A, None, None, description) /\ Quiet
    \/ \E c \in DOMAIN campaigns : create_session(c, 1, Some(B), None) /\ Quiet
    \/ \E id \in DOMAIN characters : delete_character_impl(id) /\ Quiet
    \/ \E c \in DOMAIN campaigns, query \in FilterQueries,
          entity_types \in EntityTypeFilters, limit \in {None, Some(U64(1))} :
          /\ search_entities_impl(c, query, entity_types, limit)
          /\ Called(<<query, entity_types, limit>>)

SpecFilter == Init /\ [][NextFilter]_vars

\* C23: the entity_types argument of search_entities has no effect: over the same
\* store, campaign, query and limit the call can return with one entity_types value
\* exactly what it can return with any other, also with a list that names none of
\* the types of the matching entries.
C23_EntityTypesHasNoEffect ==
    result.op = "search_entities"
    => /\ result \in SearchOutcomes(search_index, result.arg, supplied[1], supplied[2],
                                    supplied[3])
       /\ \A entity_types \in EntityTypeFilters :
             SearchOutcomes(search_index, result.arg, supplied[1], entity_types,
                            supplied[3])
                = SearchOutcomes(search_index, result.arg, supplied[1], supplied[2],
                                 supplied[3])

\* A search with the list ["location"] has returned a character and a session.
C23_Witness ==
    /\ result.op = "search_entities" /\ result.status = "Ok"
    /\ supplied[2] = Some(<<"location">>)
    /\ \E r \in result.value : r.entity_type = "character"
    /\ \E r \in result.value : r.entity_type = "session"

\* -------------------- SpecLocations: locations created, retyped, reparented, deleted

\* update_location arguments: a new location_type, a new parent, both or neither.
LocationUpdates ==
    {[location_type |-> location_type, parent_id |-> parent_id] :
        location_type \in {None, Some("room"), Some("spaceport")},
        parent_id \in OptIds}

NextLocations ==
    \/ nextId <= 1 /\ create_campaign_impl(A, None, None) /\ Quiet
    \/ \E location_type \in LocationTypeInputs, parent_id \in OptKeys(locations) :
          /\ nextId > 1
          /\ create_location_impl(1, A, location_type, parent_id, None)
          /\ Called([location_type |-> Some(location_type), parent_id |-> parent_id])
    \/ \E id \in DOMAIN locations, args \in LocationUpdates :
          update_location_impl(id, args) /\ Called(args)
    \/ \E id \in DOMAIN locations : delete_location_impl(id) /\ Quiet

SpecLocations == Init /\ [][NextLocations]_vars

\* C24: in every state reached by create_location and update_location calls each
\* stored Location's location_type is one of the ten values of the enumeration, and
\* a call that would store another value returns a Validation error and stores
\* nothing.
C24_StoredLocationTypeIsInEnumeration ==
    /\ [](\A i \in DOMAIN locations :
             locations[i].location_type \in
                 {"world", "continent", "region", "territory", "settlement",
                  "district", "building", "room", "landmark", "wilderness"})
    /\ [][/\ result'.op \in {"create_location", "update_location"}
          /\ supplied'.location_type # None
          /\ supplied'.location_type[1] \notin
                 {"world", "continent", "region", "territory", "settlement",
                  "district", "building", "room", "landmark", "wilderness"}
          => result'.status = "Validation" /\ locations' = locations
         ]_vars

\* The location `to` is reached from `from` by following at most n parent_id links.
RECURSIVE Climbs(_, _, _, _)
Climbs(locs, from, to, n) ==
    /\ n > 0
    /\ from \in DOMAIN locs
    /\ locs[from].parent_id # None
    /\ \/ locs[from].parent_id[1] = to
       \/ Climbs(locs, locs[from].parent_id[1], to, n - 1)

\* C25: the parent_id links among Locations form a forest: no sequence of
\* create_location, update_location and delete_location calls leaves a Location
\* that is its own ancestor, a Location that is its own parent included.
C25_ParentLinksFormAForest ==
    \A i \in DOMAIN locations :
        ~Climbs(locations, i, i, Cardinality(DOMAIN locations))

\* -------------------- SpecRace: add_message calls side by side

\* Messages stored or about to be stored in a behaviour of SpecRace.
MaxRaceMessages == 3

InFlight == {t \in Tasks : calls[t] # None}

\* A step inside a call: no history variable changes.
Unrecorded == UNCHANGED <<nupd, referrers, supplied, added, stmt>>

\* The pair (conversation_id, message_order) is not yet stored.
OrderFreeUnique(ms, conversation_id, message_order) ==
    \A k \in 1..Len(ms) :
        ~(ms[k].conversation_id = conversation_id /\ ms[k].message_order = message_order)

\* idx_ai_messages_order is a plain index: it rejects no pair.
OrderFree(ms, conversation_id, message_order) == TRUE

\* add_message_impl up to the end of its first round trip: the count query has
\* answered and next_order is computed.
add_message_counts(t, conversation_id, role, content) ==
    /\ calls[t] = None
    /\ calls' = [calls EXCEPT ![t] =
                    Some([op |-> "add_message", conversation_id |-> conversation_id,
                          role |-> role, content |-> content,
                          next_order |-> NextOrder(ai_messages, conversation_id)])]
    /\ UNCHANGED <<data, result>>

\* The rest of add_message_impl: model.insert(db).
add_message_inserts(t) ==
    /\ calls[t] # None /\ calls[t][1].op = "add_message"
    /\ LET call == calls[t][1]
           model == [conversation_id |-> call.conversation_id, role |-> call.role,
                     content |-> call.content, tool_name |-> None,
                     tool_input_json |-> None, tool_data_json |-> None,
                     proposal_json |-> None, message_order |-> call.next_order]
       IN IF /\ call.conversation_id \in DOMAIN ai_conversations
             /\ OrderFree(ai_messages, call.conversation_id, call.next_order)
          THEN /\ ai_messages' = Append(ai_messages, model)
               /\ result' = Ok("add_message", call.conversation_id, model)
          ELSE /\ result' = Err("add_message", call.conversation_id, "Database")
               /\ UNCHANGED ai_messages
    /\ calls' = [calls EXCEPT ![t] = None]
    /\ UNCHANGED <<campaigns, players, locations, characters, organizations, quests,
                   heroes, sessions, timeline_events, secrets, relationships, tags,
                   entity_tags, search_index, ai_conversations, nextId>>

NextRace ==
    \/ nextId <= 1 /\ calls = NoCalls /\ create_campaign_impl(A, None, None) /\ Quiet
    \/ \E c \in DOMAIN campaigns, context_type \in {"sidebar", "fullpage"} :
          /\ calls = NoCalls
          /\ get_or_create_conversation_impl(c, context_type)
          /\ Quiet
    \/ \E t \in Tasks, conv \in DOMAIN ai_conversations, role \in {"user", "assistant"} :
          /\ Len(ai_messages) + Cardinality(InFlight) < MaxRaceMessages
          /\ add_message_counts(t, conv, role, A)
          /\ Unrecorded
    \/ \E t \in Tasks : add_message_inserts(t) /\ Unrecorded

SpecRace == Init /\ [][NextRace]_vars

\* The stored messages of the conversation that have the order.
StoredWithOrder(ms, conversation_id, message_order) ==
    {k \in 1..Len(ms) : /\ ms[k].conversation_id = conversation_id
                        /\ ms[k].message_order = message_order}

CreateIndexed(c) ==
    \/ create_player(c, A, None, None)
    \/ \E parent_id \in OptKeys(locations) :
          create_location_impl(c, A, "settlement", parent_id, None)
    \/ \E description \in OptTexts : create_character_impl(c, A, None, None, description)
    \/ create_organization_impl(c, A, "other", None, None, None)
    \/ create_quest(c, A, None, None, None)
    \/ \E player_id \in OptKeys(players) : create_hero(c, A, player_id, None, None, None)
    \/ create_session(c, 1, None, None)

\* The index entries of campaign c.
EntriesOf(si, c) == {e \in BagToSet(si) : e.campaign_id = c}

\* The locations and heroes of other campaigns whose parent or player is of c.
LinkedInto(c) ==
    {i \in DOMAIN locations :
        /\ locations[i].campaign_id # c /\ locations[i].parent_id # None
        /\ locations[locations[i].parent_id[1]].campaign_id = c}
    \cup {i \in DOMAIN heroes :
            /\ heroes[i].campaign_id # c /\ heroes[i].player_id # None
            /\ players[heroes[i].player_id[1]].campaign_id = c}

NextPurge ==
    \/ nextId <= MaxCampaigns /\ create_campaign_impl(A, None, None) /\ Quiet
    \/ \E c \in DOMAIN campaigns : CreateIndexed(c) /\ Quiet
    \/ \E id \in Ids :
          /\ delete_campaign_impl(id)
          /\ Called(<<Cardinality(EntriesOf(search_index, id)), LinkedInto(id)>>)

SpecPurge == Init /\ [][NextPurge]_vars

\* C27: after delete_campaign(C) the search index holds no entry with
\* campaign_id = C, the entry of every Character, Location, Organization, Quest, Hero
\* and Session the cascade removed is gone, and the entries of other campaigns are
\* the ones there were.
C27_DeleteCampaignPurgesIndex ==
    [][\A c \in Ids :
          result'.op = "delete_campaign" /\ result'.arg = c
          => /\ \A e \in BagToSet(search_index') : e.campaign_id # c
             /\ \A type \in IndexedTypes : \A i \in DOMAIN IndexedRows(type) :
                   IndexedRows(type)[i].campaign_id = c
                       => IndexCount(search_index', type, i) = 0
             /\ \A e \in BagToSet(search_index) \cup BagToSet(search_index') :
                   e.campaign_id # c
                       => CopiesIn(e, search_index') = CopiesIn(e, search_index)
      ]_vars

\* The deleted campaign had an index entry, of a location; a location of the other
\* campaign, whose parent that location was, is still indexed.
C27_Witness ==
    /\ result.op = "delete_campaign" /\ result.value = TRUE
    /\ supplied[1] = 1
    /\ \E i \in supplied[2] : i \in DOMAIN locations /\ IndexCount(search_index, "location", i) = 1

\* -------------------- SpecFts: quotes in the input

\* C28: for an input with at least one non-whitespace character the output of
\* build_fts_query holds no double quote, and every '*' of it follows a character of
\* its token: no output token is a bare '*'.
C28_QuotesNeverMakeQueryMalformed ==
    result.op = "build_fts_query"
    /\ (\E i \in 1..Len(result.arg) : result.arg[i] \notin {" ", "\t"})
    => /\ \A i \in 1..Len(result.value) : result.value[i] # "\""
       /\ \A i \in 1..Len(result.value) :
             result.value[i] = "*" => i > 1 /\ result.value[i - 1] # " "

\* -------------------- SpecRefs: calls that name existing and missing rows

\* Messages stored at a time in a behaviour of SpecRefs.
MaxRefMessages == 1

\* The table a foreign key points to.
ReferencedRows(table) ==
    CASE table = "campaigns"        -> campaigns
      [] table = "locations"        -> locations
      [] table = "players"          -> players
      [] table = "tags"             -> tags
      [] table = "ai_conversations" -> ai_conversations

\* The step of a call that names the rows of refs, pairs of table and key.
Naming(refs) == Called(refs)

NextRefs ==
    \/ nextId <= MaxCampaigns /\ create_campaign_impl(A, None, None) /\ Naming({})
    \/ \E c \in Ids : CreateScoped(c) /\ Naming({<<"campaigns", c>>})
    \/ \E c \in DOMAIN campaigns, parent_id \in Ids :
          /\ create_location_impl(c, A, "settlement", Some(parent_id), None)
          /\ Naming({<<"campaigns", c>>, <<"locations", parent_id>>})
    \/ \E c \in DOMAIN campaigns, player_id \in Ids :
          /\ create_hero(c, A, Some(player_id), None, None, None)
          /\ Naming({<<"campaigns", c>>, <<"players", player_id>>})
    \/ \E id \in DOMAIN locations, parent_id \in Ids :
          /\ update_location_impl(id, [parent_id |-> Some(parent_id)])
          /\ Naming({<<"locations", parent_id>>})
    \/ \E id \in DOMAIN heroes, player_id \in Ids :
          /\ update_hero(id, [player_id |-> Some(player_id)])
          /\ Naming({<<"players", player_id>>})
    \/ \E tag_id \in Ids :
          /\ add_entity_tag_impl(tag_id, "character", 1)
          /\ Naming({<<"tags", tag_id>>})
    \/ \E conv \in Ids :
          /\ Len(ai_messages) < MaxRefMessages
          /\ add_message_impl(conv, "user", A)
          /\ Naming({<<"ai_conversations", conv>>})
    \/ \E id \in DOMAIN campaigns : delete_campaign_impl(id) /\ Naming({})
    \/ \E id \in DOMAIN locations : delete_location_impl(id) /\ Naming({})
    \/ \E id \in DOMAIN players : delete_player(id) /\ Naming({})
    \/ \E id \in DOMAIN tags : delete_tag_impl(id) /\ Naming({})

SpecRefs == Init /\ [][NextRefs]_vars

\* Every campaign_id of the table names a campaign.
InCampaign(table) == \A i \in DOMAIN table : table[i].campaign_id \in DOMAIN campaigns

NoDanglingReference ==
    /\ InCampaign(players) /\ InCampaign(locations) /\ InCampaign(characters)
    /\ InCampaign(organizations) /\ InCampaign(quests) /\ InCampaign(heroes)
    /\ InCampaign(sessions) /\ InCampaign(timeline_events) /\ InCampaign(secrets)
    /\ InCampaign(relationships) /\ InCampaign(tags) /\ InCampaign(ai_conversations)
    /\ \A et \in entity_tags : et.tag_id \in DOMAIN tags
    /\ \A k \in 1..Len(ai_messages) :
          ai_messages[k].conversation_id \in DOMAIN ai_conversations
    /\ \A i \in DOMAIN locations :
          locations[i].parent_id # None => locations[i].parent_id[1] \in DOMAIN locations
    /\ \A i \in DOMAIN heroes :
          heroes[i].player_id # None => heroes[i].player_id[1] \in DOMAIN players

\* C29: no stored foreign reference dangles (campaign_id of every campaign-scoped
\* row, tag_id of every EntityTag, conversation_id of every AiMessage, non-null
\* parent_id of a Location and player_id of a Hero), and a call whose insert or
\* update names a missing row returns a Database error and writes nothing.
C29_NoForeignReferenceDangles ==
    /\ []NoDanglingReference
    /\ [][(\E ref \in supplied' : ref[2] \notin DOMAIN ReferencedRows(ref[1]))
          => result'.status = "Database" /\ data' = data
         ]_vars

\* An update_location that named a missing parent has failed, while a location with
\* a parent is stored.
C29_Witness ==
    /\ result.op = "update_location" /\ result.status = "Database"
    /\ \E i \in DOMAIN locations : locations[i].parent_id # None

\* -------------------- SpecOverlap: update_token_counts calls side by side

\* Token-count updates begun in one behaviour of SpecOverlap.
MaxOverlapUpdates == 3

\* Deltas whose sums stay far inside the i32 range.
OverlapDeltas == {<<100, 50, 25, 10>>, <<200, 100, 50, 20>>}

\* update_token_counts_impl up to the end of its first round trip: find_by_id has
\* answered with the conversation row, or with none.
update_token_counts_reads(t, conversation_id, deltas) ==
    /\ calls[t] = None
    /\ IF conversation_id \notin DOMAIN ai_conversations
       THEN /\ result' = Err("update_token_counts", conversation_id, "NotFound")
            /\ UNCHANGED calls
       ELSE /\ calls' = [calls EXCEPT ![t] =
                            Some([op |-> "update_token_counts",
                                  conversation_id |-> conversation_id,
                                  deltas |-> deltas,
                                  conversation |-> ai_conversations[conversation_id]])]
            /\ UNCHANGED result
    /\ UNCHANGED data

\* The rest of update_token_counts_impl: the sums over the row that was read, and
\* active.update(db), which sets the four totals of the row with that id.
update_token_counts_writes(t) ==
    /\ calls[t] # None /\ calls[t][1].op = "update_token_counts"
    /\ LET call == calls[t][1]
           new == Added(Totals(call.conversation), call.deltas)
       IN IF call.conversation_id \in DOMAIN ai_conversations
          THEN LET updated == [ai_conversations[call.conversation_id] EXCEPT
                                  !.total_input_tokens = new[1],
                                  !.total_output_tokens = new[2],
                                  !.total_cache_read_tokens = new[3],
                                  !.total_cache_creation_tokens = new[4]]
               IN /\ ai_conversations' =
                        [ai_conversations EXCEPT ![call.conversation_id] = updated]
                  /\ result' = Ok("update_token_counts", call.conversation_id, updated)
          ELSE /\ result' = Err("update_token_counts", call.conversation_id, "Database")
               /\ UNCHANGED ai_conversations
    /\ calls' = [calls EXCEPT ![t] = None]
    /\ UNCHANGED <<campaigns, players, locations, characters, organizations, quests,
                   heroes, sessions, timeline_events, secrets, relationships, tags,
                   entity_tags, search_index, ai_messages, nextId>>

\* The step that ends a call: its deltas are added to the sums of the conversation.
Settled(t) ==
    /\ nupd' = nupd + 1
    /\ added' = IF result'.status = "Ok"
                THEN [added EXCEPT ![calls[t][1].conversation_id] =
                         [k \in 1..4 |-> BigAdd(@[k], Big(calls[t][1].deltas[k]))]]
                ELSE added
    /\ supplied' = calls[t][1].deltas
    /\ UNCHANGED <<referrers, stmt>>

NextOverlap ==
    \/ nextId <= 1 /\ calls = NoCalls /\ create_campaign_impl(A, None, None) /\ Quiet
    \/ \E c \in DOMAIN campaigns, context_type \in {"sidebar", "fullpage"} :
          /\ calls = NoCalls
          /\ get_or_create_conversation_impl(c, context_type)
          /\ Quiet
    \/ \E t \in Tasks, conv \in 2..3, deltas \in OverlapDeltas :
          /\ nupd + Cardinality(InFlight) < MaxOverlapUpdates
          /\ update_token_counts_reads(t, conv, deltas)
          /\ Unrecorded
    \/ \E t \in Tasks : update_token_counts_writes(t) /\ Settled(t)

SpecOverlap == Init /\ [][NextOverlap]_vars

====
